---- MODULE Spec2Model ----
(***************************************************************************)
(* A model of the core engine of wimlib: the prefix-code utilities         *)
(* (make_huffman_decode_table, make_canonical_huffman_code), the LZMS       *)
(* shared state, and the dentry tree and its on-disk codec.                 *)
(*                                                                          *)
(* Every subsystem has its own specification over its own group of          *)
(* variables; the variables of the other subsystems stay at their idle      *)
(* values under it.                                                         *)
(***************************************************************************)
EXTENDS Integers, Sequences, FiniteSets, TLC

VARIABLES
    \* ---- prefix-code utilities
    hpc,                \* "idle" | "freqs" | "lens" | "done": where the codec run stands
    num_syms,           \* size of the alphabet
    max_codeword_len,   \* the length limit
    table_bits,         \* log2 of the root table size
    build,              \* which of the #ifdef'd fill loops the build holds
    freqs,              \* freqs[0 .. num_syms-1], u32
    lens,               \* lens[0 .. num_syms-1], u8
    codewords,          \* codewords[0 .. num_syms-1]; -1 where never written
    decode_table,       \* the u16 entries written so far, by index
    ret,                \* result of make_huffman_decode_table: 0 | -1 | "none"
    \* ---- LZMS x86 filter
    xpc,                \* "idle" | "raw" | "translated" | "restored"
    data,               \* the byte buffer, data[0 .. size-1]
    size,               \* its size
    orig,               \* the buffer as it was handed in
    fwd_trace,          \* what the undo = false pass did, step by step
    undo_trace,         \* what the undo = true pass did, step by step
    \* ---- LZMS slot bases
    tpc,                \* each thread's position in lzms_init_slot_bases
    mutex,              \* the thread that holds the mutex, 0 if none
    already_computed,   \* the static flag, as it stands in memory
    slot_base,          \* what memory holds of the two tables
    todo,               \* stores of the computing thread not yet in memory
    computes,           \* how often lzms_compute_slot_bases was entered
    slot_call,          \* the last call of lzms_get_slot and what it did
    \* ---- dentry tree
    file_name,          \* each dentry's long name, a sequence of code units
    d_parent,           \* each dentry's parent; itself for a root or unlinked one
    i_children,         \* per directory: the case-sensitive index
    i_children_ci,      \* per directory: the case-insensitive index
    ci_next,            \* d_ci_conflict_list.next
    ci_prev,            \* d_ci_conflict_list.prev
    ci_linked,          \* d_index_node_ci is not marked unlinked
    full_path,          \* the cached _full_path, empty if none
    tree_last,          \* the last call on the tree and what it returned
    \* ---- dentry codec
    mpc,                \* "idle" | "tree" | "offsets" | "written" | "buffer" | "read"
    in_tree,            \* the dentry tree handed to the writer, by dentry
    root_offset,        \* where the root dentry lies in the metadata resource
    subdir_end,         \* *subdir_offset_p after calculate_subdir_offsets
    write_end,          \* the offset write_dentry_tree returned
    mbuf,               \* the metadata resource: what lies at which offset
    buf_len,            \* its length in bytes
    read_ret,           \* result of read_dentry_tree, "none" before the call
    root_ret,           \* the tree handed to the caller, empty if none
    \* ---- Windows metadata harvester
    wpc,                \* "idle" | "image" | "done"
    top_level,          \* the children of the root, in the order they are visited
    win_env,            \* what the collaborators of the harvest report
    win_best,           \* best_score, best_systemroot, ... when the loop ends
    win_ctx,            \* ctx.oom_encountered and the collaborators' reports
    win_ret,            \* result of set_windows_specific_info, "none" before
    \* ---- LZMS LRU queues
    qpc,                \* "idle" | "uninit" | "ready"
    lru,                \* struct lzms_lru_queues: lz and delta
    lru_calls,          \* how often lzms_update_lru_queues was called
    lru_before,         \* the queues as the last call found them
    lru_before2,        \* the queues as the call before the last found them
    \* ---- for_dentry_in_tree
    walk_pc,            \* "idle" | "tree" | "done"
    walk_root,          \* the root handed to for_dentry_in_tree, NULL if none
    walk_tree,          \* the dentries of the tree: d_parent and file_name
    walk_visitor,       \* what the visitor returns for each dentry
    walk_calls,         \* the dentries the visitor was called on, in order
    walk_ret,           \* result of for_dentry_in_tree, "none" before
    \* ---- read_dentry_tree, step by step
    scan_pc,            \* "idle" | "root" | "loop" | "enter" | "done"
    scan_buf,           \* buf: the records by their offsets
    scan_len,           \* buf_len
    scan_stack,         \* the calls of read_dentry_tree_recursive, the last first
    scan_linked,        \* the dentries linked into the tree so far
    scan_child,         \* the child the next call is made for
    scan_ret            \* result of read_dentry_tree, "none" before

huffVars == <<hpc, num_syms, max_codeword_len, table_bits, build, freqs, lens,
              codewords, decode_table, ret>>
x86Vars == <<xpc, data, size, orig, fwd_trace, undo_trace>>
slotVars == <<tpc, mutex, already_computed, slot_base, todo, computes, slot_call>>
treeVars == <<file_name, d_parent, i_children, i_children_ci, ci_next, ci_prev,
              ci_linked, full_path, tree_last>>
metaVars == <<mpc, in_tree, root_offset, subdir_end, write_end, mbuf, buf_len,
              read_ret, root_ret>>
winVars == <<wpc, top_level, win_env, win_best, win_ctx, win_ret>>
lruVars == <<qpc, lru, lru_calls, lru_before, lru_before2>>
walkVars == <<walk_pc, walk_root, walk_tree, walk_visitor, walk_calls, walk_ret>>
scanVars == <<scan_pc, scan_buf, scan_len, scan_stack, scan_linked, scan_child,
              scan_ret>>

(***************************************************************************)
(* Bounds of the model.                                                     *)
(***************************************************************************)
MaxSyms == 4        \* alphabets of 2 .. MaxSyms symbols
MaxLen == 4         \* max_codeword_len in 1 .. MaxLen
MaxFreq == 3        \* small frequencies 0 .. MaxFreq (plus the large ones below)
MaxChunks == 4      \* instruction-like chunks in a filtered buffer
NumThreads == 2     \* threads that call lzms_init_slot_bases
NumDentries == 3    \* dentries besides the root of the image
MaxCached == 1      \* dentries whose full path is cached
MaxNodes == 2       \* dentries below the root of a tree that is written
MaxSlots == 3       \* records after the root in a buffer that is parsed
MaxTopLevel == 3    \* children of the root of an image that is harvested
MaxExtraStreams == 3 \* extra stream entries of a record that is parsed

RECURSIVE Pow2(_)
Pow2(n) == IF n <= 0 THEN 1 ELSE 2 * Pow2(n - 1)

Min(a, b) == IF a <= b THEN a ELSE b

(***************************************************************************)
(* decompress_common.c: make_huffman_decode_table                           *)
(***************************************************************************)

\* A decode table entry: the symbol (or subtable index) above the length
\* (or subtable bits), which takes the low bits.
DECODE_TABLE_SYMBOL_SHIFT == 4
MAKE_DECODE_TABLE_ENTRY(sym, len) == sym * Pow2(DECODE_TABLE_SYMBOL_SHIFT) + len
EntrySymbol(e) == e \div Pow2(DECODE_TABLE_SYMBOL_SHIFT)
EntryLength(e) == e % Pow2(DECODE_TABLE_SYMBOL_SHIFT)

\* The builds of the root-table fill: entries written per store by the first
\* loops (8 per SSE2 vector, 4 per 64-bit word), before the one-entry loop.
Builds == {"sse2", "gnuc", "plain"}
StoreWidths(b) ==
    CASE b = "sse2"  -> <<8, 4, 1>>
      [] b = "gnuc"  -> <<4, 1>>
      [] OTHER       -> <<1>>

\* len_counts[len] for len in 0 .. L (u16 counters).
CountLens(ls, n, L) ==
    [len \in 0..L |-> Cardinality({s \in 0..(n - 1) : ls[s] = len}) % 65536]

\* The codespace loop: the remainder after the last length, or -1 as soon as
\* the remainder is negative.
RECURSIVE CodespaceRemainder(_, _, _, _)
CodespaceRemainder(lc, len, L, rem) ==
    IF len > L THEN rem
    ELSE LET r == 2 * rem - lc[len]
         IN  IF r < 0 THEN -1 ELSE CodespaceRemainder(lc, len + 1, L, r)

\* offsets[len]: the number of codewords shorter than len, length 0 included.
RECURSIVE InitOffsets(_, _, _)
InitOffsets(lc, len, L) ==
    IF len = 0 THEN 0
    ELSE (InitOffsets(lc, len - 1, L) + lc[len - 1]) % 65536

\* A counting sort that never advances offsets[].
RECURSIVE SortSymsNoAdvance(_, _, _, _, _)
SortSymsNoAdvance(ls, n, sym, offsets, sorted) ==
    IF sym >= n THEN [offsets |-> offsets, sorted |-> sorted]
    ELSE SortSymsNoAdvance(ls, n, sym + 1, offsets,
                           [sorted EXCEPT ![offsets[ls[sym]]] = sym])

\* The counting sort sorted_syms[offsets[lens[sym]]++] = sym, symbol by symbol.
RECURSIVE SortSyms(_, _, _, _, _)
SortSyms(ls, n, sym, offsets, sorted) ==
    IF sym >= n THEN [offsets |-> offsets, sorted |-> sorted]
    ELSE SortSyms(ls, n, sym + 1,
                  [offsets EXCEPT ![ls[sym]] = @ + 1],
                  [sorted EXCEPT ![offsets[ls[sym]]] = sym])

\* n entries v stored from index pos on.
StoreRun(t, pos, n, v) ==
    [j \in (DOMAIN t) \cup (pos..(pos + n - 1)) |->
        IF j \in pos..(pos + n - 1) THEN v ELSE t[j]]

\* The symbols of one codeword length, each filling stores * width entries.
RECURSIVE FillSyms(_, _, _, _, _, _, _)
FillSyms(t, pos, sym_idx, end_sym_idx, sorted, codeword_len, count) ==
    IF sym_idx >= end_sym_idx THEN [t |-> t, pos |-> pos, sym_idx |-> sym_idx]
    ELSE FillSyms(StoreRun(t, pos, count,
                           MAKE_DECODE_TABLE_ENTRY(sorted[sym_idx], codeword_len)),
                  pos + count, sym_idx + 1, end_sym_idx, sorted, codeword_len, count)

\* One of the fill loops: for (stores = 2^(table_bits - len) / width;
\* stores != 0; len++, stores >>= 1).
RECURSIVE FillLoop(_, _, _, _, _)
FillLoop(st, stores, width, lc, sorted) ==
    IF stores = 0 THEN st
    ELSE LET f == FillSyms(st.t, st.pos, st.sym_idx,
                           st.sym_idx + lc[st.codeword_len], sorted,
                           st.codeword_len, stores * width)
         IN  FillLoop([t |-> f.t, pos |-> f.pos, sym_idx |-> f.sym_idx,
                       codeword_len |-> st.codeword_len + 1],
                      stores \div 2, width, lc, sorted)

\* The fill loops the build holds, in their order.
RECURSIVE FillRoot(_, _, _, _, _)
FillRoot(st, widths, tb, lc, sorted) ==
    IF widths = <<>> THEN st
    ELSE FillRoot(FillLoop(st, Pow2(tb - st.codeword_len) \div Head(widths),
                           Head(widths), lc, sorted),
                  Tail(widths), tb, lc, sorted)

\* while (len_counts[codeword_len] == 0) { codeword_len++; codeword <<= 1; }
RECURSIVE SkipEmptyLens(_, _, _)
SkipEmptyLens(lc, codeword_len, codeword) ==
    IF lc[codeword_len] # 0 THEN [codeword_len |-> codeword_len, codeword |-> codeword]
    ELSE SkipEmptyLens(lc, codeword_len + 1, codeword * 2)

\* A subtable length that is never incremented.
SubtableBitsNotGrown(lc, tb, subtable_bits, remainder) == subtable_bits

\* The subtable length: for (;;) { remainder -= len_counts[table_bits +
\* subtable_bits]; if (remainder <= 0) break; subtable_bits++; remainder <<= 1; }
RECURSIVE SubtableBits(_, _, _, _)
SubtableBits(lc, tb, subtable_bits, remainder) ==
    LET r == remainder - lc[tb + subtable_bits]
    IN  IF r <= 0 THEN subtable_bits
        ELSE SubtableBits(lc, tb, subtable_bits + 1, 2 * r)

\* The do-while loop over the symbols whose codewords exceed table_bits.
RECURSIVE FillSubtables(_, _, _, _)
FillSubtables(st, n, tb, sorted) ==
    LET sk       == SkipEmptyLens(st.lc, st.codeword_len, st.codeword)
        clen     == sk.codeword_len
        cw       == sk.codeword
        prefix   == cw \div Pow2(clen - tb)
        fresh    == prefix # st.subtable_prefix
        sbits    == IF fresh
                    THEN SubtableBits(st.lc, tb, clen - tb, Pow2(clen - tb))
                    ELSE st.subtable_bits
        t1       == IF fresh
                    THEN StoreRun(st.t, prefix, 1,
                                  MAKE_DECODE_TABLE_ENTRY(st.subtable_pos, sbits))
                    ELSE st.t
        count    == Pow2(sbits - (clen - tb))
        t2       == StoreRun(t1, st.subtable_pos, count,
                             MAKE_DECODE_TABLE_ENTRY(sorted[st.sym_idx], clen - tb))
        next     == [t |-> t2, sym_idx |-> st.sym_idx + 1, codeword |-> cw + 1,
                     codeword_len |-> clen,
                     lc |-> [st.lc EXCEPT ![clen] = @ - 1],
                     subtable_pos |-> st.subtable_pos + count,
                     subtable_bits |-> sbits, subtable_prefix |-> prefix]
    IN  IF next.sym_idx < n THEN FillSubtables(next, n, tb, sorted) ELSE next.t

\* memset(decode_table, 0, sizeof(decode_table[0]) << table_bits)
\* The empty code without its memset.
ZeroTableSkipped(tb) == <<>>

\* memset(decode_table, 0, sizeof(decode_table[0]) << table_bits)
ZeroTable(tb) == [j \in 0..(Pow2(tb) - 1) |-> 0]

\* The whole function: [ret, t], t the entries it has written.
MakeHuffmanDecodeTable(n, tb, ls, L, b) ==
    LET lc        == CountLens(ls, n, L)
        remainder == CodespaceRemainder(lc, 1, L, 1)
        srt       == SortSyms(ls, n, 0, [len \in 0..L |-> InitOffsets(lc, len, L)],
                              [k \in 0..(n - 1) |-> 0])
        root      == FillRoot([t |-> <<>>, pos |-> 0, sym_idx |-> srt.offsets[0],
                               codeword_len |-> 1],
                              StoreWidths(b), tb, lc, srt.sorted)
    IN  IF remainder < 0 THEN [ret |-> -1, t |-> <<>>]
        ELSE IF remainder # 0
        THEN IF remainder # Pow2(L) THEN [ret |-> -1, t |-> <<>>]
             ELSE [ret |-> 0, t |-> ZeroTable(tb)]
        ELSE IF root.sym_idx = n THEN [ret |-> 0, t |-> root.t]
        ELSE [ret |-> 0,
              t |-> FillSubtables([t |-> root.t, sym_idx |-> root.sym_idx,
                                   codeword |-> root.pos * 2,
                                   codeword_len |-> root.codeword_len,
                                   lc |-> lc, subtable_pos |-> Pow2(tb),
                                   subtable_bits |-> tb, subtable_prefix |-> -1],
                                  n, tb, srt.sorted)]

(***************************************************************************)
(* compress_common.c: make_canonical_huffman_code                           *)
(*                                                                          *)
(* A u32 array entry is kept as its two fields: sym, the low                *)
(* NUM_SYMBOL_BITS bits, and hi, the remaining 32 - NUM_SYMBOL_BITS bits    *)
(* (a frequency, a parent index, a depth or the high part of a codeword).   *)
(***************************************************************************)
NUM_SYMBOL_BITS == 10
SYMBOL_MASK == Pow2(NUM_SYMBOL_BITS) - 1
HiMod == Pow2(32 - NUM_SYMBOL_BITS)

\* sym | (freq << NUM_SYMBOL_BITS), in 32 bits.
PackSym(sym, freq) == [sym |-> sym, hi |-> freq % HiMod]
\* An entry of the caller's array that nothing has written.
Unwritten == [sym |-> -1, hi |-> -1]

\* Unsigned comparison of two entries.
EntryGt(x, y) == x.hi > y.hi \/ (x.hi = y.hi /\ x.sym > y.sym)
EntryGe(x, y) == x.hi > y.hi \/ (x.hi = y.hi /\ x.sym >= y.sym)

\* heapify_subtree on the 1-based array H, the value v sinking from parent_idx.
RECURSIVE SiftDown(_, _, _, _)
SiftDown(H, length, parent_idx, v) ==
    LET c == parent_idx * 2
    IN  IF c > length THEN [H EXCEPT ![parent_idx] = v]
        ELSE LET child_idx == IF c < length /\ EntryGt(H[c + 1], H[c])
                              THEN c + 1 ELSE c
             IN  IF EntryGe(v, H[child_idx]) THEN [H EXCEPT ![parent_idx] = v]
                 ELSE SiftDown([H EXCEPT ![parent_idx] = H[child_idx]],
                               length, child_idx, v)

heapify_subtree(H, length, subtree_idx) ==
    SiftDown(H, length, subtree_idx, H[subtree_idx])

RECURSIVE HeapifyFrom(_, _, _)
HeapifyFrom(H, length, subtree_idx) ==
    IF subtree_idx < 1 THEN H
    ELSE HeapifyFrom(heapify_subtree(H, length, subtree_idx), length, subtree_idx - 1)

heapify_array(H, length) == HeapifyFrom(H, length, length \div 2)

RECURSIVE HeapsortLoop(_, _)
HeapsortLoop(H, length) ==
    IF length < 2 THEN H
    ELSE LET swapped == [H EXCEPT ![1] = H[length], ![length] = H[1]]
         IN  HeapsortLoop(heapify_subtree(swapped, length - 1, 1), length - 1)

\* heapsort of the entries A[from .. from + length - 1].
heapsort(A, from, length) ==
    IF length = 0 THEN A
    ELSE LET H == HeapsortLoop(heapify_array([k \in 1..length |-> A[from + k - 1]],
                                             length), length)
         IN  [k \in DOMAIN A |->
                 IF k >= from /\ k < from + length THEN H[k - from + 1] ELSE A[k]]

\* (DIV_ROUND_UP(num_syms, 4) + 3) & ~3
NumCounters(n) == ((((n + 3) \div 4) + 3) \div 4) * 4

\* The cumulative counters: how many used symbols fall in the counters below i.
StartOf(fr, n, nc, i) ==
    Cardinality({s \in 0..(n - 1) : fr[s] # 0 /\ Min(fr[s], nc - 1) < i})

\* The placement loop of sort_symbols, symbol by symbol.
RECURSIVE PlaceSyms(_, _, _, _, _, _, _)
PlaceSyms(fr, n, nc, sym, counters, symout, ls) ==
    IF sym >= n THEN [counters |-> counters, symout |-> symout, lens |-> ls]
    ELSE IF fr[sym] # 0
    THEN LET c == Min(fr[sym], nc - 1)
         IN  PlaceSyms(fr, n, nc, sym + 1, [counters EXCEPT ![c] = @ + 1],
                       [symout EXCEPT ![counters[c]] = PackSym(sym, fr[sym])], ls)
    ELSE PlaceSyms(fr, n, nc, sym + 1, counters, symout, [ls EXCEPT ![sym] = 0])

\* sort_symbols: [num_used_syms, symout, lens].
sort_symbols(n, fr, ls, symout) ==
    LET nc     == NumCounters(n)
        placed == PlaceSyms(fr, n, nc, 0,
                            [i \in 0..(nc - 1) |-> IF i = 0 THEN
                                Cardinality({s \in 0..(n - 1) : fr[s] = 0})
                                ELSE StartOf(fr, n, nc, i)],
                            symout, ls)
    IN  [num_used_syms |-> Cardinality({s \in 0..(n - 1) : fr[s] # 0}),
         symout |-> heapsort(placed.symout, placed.counters[nc - 2],
                             placed.counters[nc - 1] - placed.counters[nc - 2]),
         lens |-> placed.lens]

\* build_tree: the do-while loop, i the next leaf, b the next parentless
\* non-leaf, e the next non-leaf to allocate.
RECURSIVE build_tree_loop(_, _, _, _, _)
build_tree_loop(A, sym_count, i, b, e) ==
    LET leaf1 == i # sym_count /\ (b = e \/ A[i].hi <= A[b].hi)
        m     == IF leaf1 THEN i ELSE b
        i1    == IF leaf1 THEN i + 1 ELSE i
        b1    == IF leaf1 THEN b ELSE b + 1
        leaf2 == i1 # sym_count /\ (b1 = e \/ A[i1].hi <= A[b1].hi)
        n     == IF leaf2 THEN i1 ELSE b1
        i2    == IF leaf2 THEN i1 + 1 ELSE i1
        b2    == IF leaf2 THEN b1 ELSE b1 + 1
        freq_shifted == (A[m].hi + A[n].hi) % HiMod
        A1    == [A EXCEPT ![m].hi = e]
        A2    == [A1 EXCEPT ![n].hi = e]
        A3    == [A2 EXCEPT ![e].hi = freq_shifted]
    IN  IF sym_count - (e + 1) > 1
        THEN build_tree_loop(A3, sym_count, i2, b2, e + 1)
        ELSE A3

build_tree(A, sym_count) == build_tree_loop(A, sym_count, 0, 0, 0)

\* do { len--; } while (len_counts[len] == 0);
RECURSIVE NextUsedLen(_, _)
NextUsedLen(len_counts, len) ==
    IF len_counts[len - 1] # 0 THEN len - 1 ELSE NextUsedLen(len_counts, len - 1)

\* The length a non-leaf of the given depth is accounted at.
LimitedLen(len_counts, depth, L) ==
    IF depth >= L THEN NextUsedLen(len_counts, L) ELSE depth

RECURSIVE compute_length_counts_loop(_, _, _, _)
compute_length_counts_loop(A, node, len_counts, L) ==
    IF node < 0 THEN [A |-> A, len_counts |-> len_counts]
    ELSE LET parent == A[node].hi
             depth  == A[parent].hi + 1
             len    == LimitedLen(len_counts, depth, L)
         IN  compute_length_counts_loop(
                 [A EXCEPT ![node].hi = depth], node - 1,
                 [len_counts EXCEPT ![len] = @ - 1, ![len + 1] = @ + 2], L)

compute_length_counts(A, root_idx, L) ==
    compute_length_counts_loop([A EXCEPT ![root_idx].hi = 0], root_idx - 1,
                               [len \in 0..L |-> IF len = 1 THEN 2 ELSE 0], L)

\* Lengths handed out one bit shorter than counted.
RECURSIVE AssignLensShorter(_, _, _, _, _, _)
AssignLensShorter(A, ls, len_counts, i, len, count) ==
    IF len < 1 THEN ls
    ELSE IF count = 0
    THEN AssignLensShorter(A, ls, len_counts, i, len - 1,
                           IF len - 1 >= 1 THEN len_counts[len - 1] ELSE 0)
    ELSE AssignLensShorter(A, [ls EXCEPT ![A[i].sym] = IF len > 1 THEN len - 1 ELSE 1],
                           len_counts, i + 1, len, count - 1)

\* The first loop of gen_codewords: lengths in decreasing order to the sorted
\* symbols.
RECURSIVE AssignLens(_, _, _, _, _, _)
AssignLens(A, ls, len_counts, i, len, count) ==
    IF len < 1 THEN ls
    ELSE IF count = 0
    THEN AssignLens(A, ls, len_counts, i, len - 1,
                    IF len - 1 >= 1 THEN len_counts[len - 1] ELSE 0)
    ELSE AssignLens(A, [ls EXCEPT ![A[i].sym] = len], len_counts, i + 1, len,
                    count - 1)

RECURSIVE FirstCodeword(_, _)
FirstCodeword(len_counts, len) ==
    IF len <= 1 THEN 0
    ELSE (2 * (FirstCodeword(len_counts, len - 1) + len_counts[len - 1]))
             % Pow2(16)

\* Codewords handed out without advancing next_codewords[].
RECURSIVE AssignCodewordsNoAdvance(_, _, _, _, _)
AssignCodewordsNoAdvance(A, ls, n, sym, next_codewords) ==
    IF sym >= n THEN A
    ELSE AssignCodewordsNoAdvance(
             [A EXCEPT ![sym] = [sym |-> next_codewords[ls[sym]] % Pow2(NUM_SYMBOL_BITS),
                                 hi |-> next_codewords[ls[sym]] \div Pow2(NUM_SYMBOL_BITS)]],
             ls, n, sym + 1, next_codewords)

\* A[sym] = next_codewords[lens[sym]]++, symbol by symbol.
RECURSIVE AssignCodewords(_, _, _, _, _)
AssignCodewords(A, ls, n, sym, next_codewords) ==
    IF sym >= n THEN A
    ELSE AssignCodewords(
             [A EXCEPT ![sym] = [sym |-> next_codewords[ls[sym]] % Pow2(NUM_SYMBOL_BITS),
                                 hi |-> next_codewords[ls[sym]] \div Pow2(NUM_SYMBOL_BITS)]],
             ls, n, sym + 1, [next_codewords EXCEPT ![ls[sym]] = @ + 1])

gen_codewords(A, ls, len_counts, L, n) ==
    LET ls2 == AssignLens(A, ls, len_counts, 0, L, len_counts[L])
    IN  [lens |-> ls2,
         A |-> AssignCodewords(A, ls2, n, 0,
                               [len \in 0..L |-> FirstCodeword(len_counts, len)])]

\* The function with the single used symbol taken as the index of the
\* second codeword whatever it is.
MakeCanonicalHuffmanCodeSymAsIndex(n, L, fr, ls0, A0) ==
    LET srt == sort_symbols(n, fr, ls0, A0)
        A   == srt.symout
        sym == A[0].sym
        tree == build_tree(A, srt.num_used_syms)
        cnt  == compute_length_counts(tree, srt.num_used_syms - 2, L)
    IN  IF srt.num_used_syms = 0 THEN [lens |-> srt.lens, A |-> A]
        ELSE IF srt.num_used_syms = 1
        THEN [lens |-> [[srt.lens EXCEPT ![0] = 1] EXCEPT ![sym] = 1],
              A |-> [[A EXCEPT ![0] = [sym |-> 0, hi |-> 0]]
                        EXCEPT ![sym] = [sym |-> 1, hi |-> 0]]]
        ELSE gen_codewords(cnt.A, srt.lens, cnt.len_counts, L, n)

\* The whole function: [lens, A], A the codewords array as left behind.
MakeCanonicalHuffmanCode(n, L, fr, ls0, A0) ==
    LET srt == sort_symbols(n, fr, ls0, A0)
        A   == srt.symout
        sym == A[0].sym
        nonzero_idx == IF sym # 0 THEN sym ELSE 1
        tree == build_tree(A, srt.num_used_syms)
        cnt  == compute_length_counts(tree, srt.num_used_syms - 2, L)
    IN  IF srt.num_used_syms = 0 THEN [lens |-> srt.lens, A |-> A]
        ELSE IF srt.num_used_syms = 1
        THEN [lens |-> [srt.lens EXCEPT ![0] = 1, ![nonzero_idx] = 1],
              A |-> [A EXCEPT ![0] = [sym |-> 0, hi |-> 0],
                              ![nonzero_idx] = [sym |-> 1, hi |-> 0]]]
        ELSE gen_codewords(cnt.A, srt.lens, cnt.len_counts, L, n)

\* The value of a u32 entry that holds a codeword; -1 for one never written.
CodewordOf(e) == IF e = Unwritten THEN -1 ELSE e.hi * Pow2(NUM_SYMBOL_BITS) + e.sym

(***************************************************************************)
(* The runs of the prefix-code utilities.                                   *)
(***************************************************************************)
\* A frequency whose packed word freq << NUM_SYMBOL_BITS no longer fits.
LargeFreq == Pow2(32 - NUM_SYMBOL_BITS)
FreqValues == (0..MaxFreq) \cup {LargeFreq}

NumUsed(fr, n) == Cardinality({s \in 0..(n - 1) : fr[s] # 0})

\* The other subsystems at rest.
HuffIdle ==
    /\ hpc = "idle" /\ num_syms = 0 /\ max_codeword_len = 0 /\ table_bits = 0
    /\ build = "plain" /\ freqs = <<>> /\ lens = <<>> /\ codewords = <<>>
    /\ decode_table = <<>> /\ ret = "none"

X86Idle ==
    /\ xpc = "idle" /\ data = <<>> /\ size = 0 /\ orig = <<>>
    /\ fwd_trace = <<>> /\ undo_trace = <<>>

SlotIdle ==
    /\ tpc = <<>> /\ mutex = 0 /\ already_computed = FALSE
    /\ slot_base = <<>> /\ todo = {} /\ computes = 0 /\ slot_call = <<>>

TreeIdle ==
    /\ file_name = <<>> /\ d_parent = <<>> /\ i_children = <<>>
    /\ i_children_ci = <<>> /\ ci_next = <<>> /\ ci_prev = <<>>
    /\ ci_linked = <<>> /\ full_path = <<>> /\ tree_last = <<>>

MetaIdle ==
    /\ mpc = "idle" /\ in_tree = <<>> /\ root_offset = 0 /\ subdir_end = 0
    /\ write_end = 0 /\ mbuf = <<>> /\ buf_len = 0 /\ read_ret = "none" /\ root_ret = {}

WinIdle ==
    /\ wpc = "idle" /\ top_level = <<>> /\ win_env = <<>> /\ win_best = <<>>
    /\ win_ctx = <<>> /\ win_ret = "none"

LruIdle ==
    /\ qpc = "idle" /\ lru = <<>> /\ lru_calls = 0
    /\ lru_before = <<>> /\ lru_before2 = <<>>

WalkIdle ==
    /\ walk_pc = "idle" /\ walk_root = 0 /\ walk_tree = <<>>
    /\ walk_visitor = <<>> /\ walk_calls = <<>> /\ walk_ret = "none"

ScanIdle ==
    /\ scan_pc = "idle" /\ scan_buf = <<>> /\ scan_len = 0 /\ scan_stack = <<>>
    /\ scan_linked = {} /\ scan_child = <<>> /\ scan_ret = "none"

OthersIdle == X86Idle /\ SlotIdle /\ TreeIdle /\ MetaIdle /\ WinIdle /\ LruIdle /\ WalkIdle /\ ScanIdle

\* A decoder is handed the lengths read from a stream: any lengths at all.
InitDecode ==
    /\ OthersIdle
    /\ hpc = "lens"
    /\ num_syms \in 2..MaxSyms
    /\ max_codeword_len \in 1..MaxLen
    /\ table_bits \in 1..max_codeword_len
    /\ build \in Builds
    /\ lens \in [0..(num_syms - 1) -> 0..max_codeword_len]
    /\ freqs = <<>> /\ codewords = <<>> /\ decode_table = <<>> /\ ret = "none"

\* An encoder is handed the frequencies it counted; the caller's alphabet
\* fits the length limit.
InitCodec ==
    /\ OthersIdle
    /\ hpc = "freqs"
    /\ num_syms \in 2..MaxSyms
    /\ max_codeword_len \in 1..MaxLen
    /\ table_bits = max_codeword_len
    /\ build \in Builds
    /\ freqs \in [0..(num_syms - 1) -> FreqValues]
    /\ NumUsed(freqs, num_syms) <= Pow2(max_codeword_len)
    /\ lens = <<>> /\ codewords = <<>> /\ decode_table = <<>> /\ ret = "none"

EncodeCall ==
    /\ hpc = "freqs"
    /\ LET r == MakeCanonicalHuffmanCode(num_syms, max_codeword_len, freqs,
                                         [s \in 0..(num_syms - 1) |-> -1],
                                         [s \in 0..(num_syms - 1) |-> Unwritten])
       IN  /\ lens' = r.lens
           /\ codewords' = [s \in 0..(num_syms - 1) |-> CodewordOf(r.A[s])]
    /\ hpc' = "lens"
    /\ UNCHANGED <<num_syms, max_codeword_len, table_bits, build, freqs,
                   decode_table, ret>>
    /\ UNCHANGED <<x86Vars, slotVars, treeVars, metaVars, winVars, lruVars, walkVars, scanVars>>

DecodeTableCall ==
    /\ hpc = "lens"
    /\ LET r == MakeHuffmanDecodeTable(num_syms, table_bits, lens,
                                       max_codeword_len, build)
       IN  /\ ret' = r.ret
           /\ decode_table' = r.t
    /\ hpc' = "done"
    /\ UNCHANGED <<num_syms, max_codeword_len, table_bits, build, freqs, lens,
                   codewords>>
    /\ UNCHANGED <<x86Vars, slotVars, treeVars, metaVars, winVars, lruVars, walkVars, scanVars>>

vars == <<huffVars, x86Vars, slotVars, treeVars, metaVars, winVars, lruVars, walkVars, scanVars>>

NextDecode == DecodeTableCall
SpecDecode == InitDecode /\ [][NextDecode]_vars

NextCodec == EncodeCall \/ DecodeTableCall
SpecCodec == InitCodec /\ [][NextCodec]_vars

(***************************************************************************)
(* Properties of the prefix-code utilities.                                 *)
(***************************************************************************)
Syms == 0..(num_syms - 1)
UsedSyms == {s \in Syms : lens[s] # 0}

\* The codespace the symbols of S take, in units of 2^-L.
RECURSIVE WeightSum(_, _, _)
WeightSum(ls, L, S) ==
    IF S = {} THEN 0
    ELSE LET t == CHOOSE x \in S : TRUE
         IN  Pow2(L - ls[t]) + WeightSum(ls, L, S \ {t})

KraftSum == WeightSum(lens, max_codeword_len, UsedSyms)
FullSpace == Pow2(max_codeword_len)

\* The first L-bit index of the canonical codeword of s: the codespace of the
\* used symbols that come before s by (length, symbol value).
CanonFirst(s) ==
    WeightSum(lens, max_codeword_len,
              {t \in UsedSyms : lens[t] < lens[s] \/ (lens[t] = lens[s] /\ t < s)})
CanonIndexes(s) ==
    CanonFirst(s)..(CanonFirst(s) + Pow2(max_codeword_len - lens[s]) - 1)

RootIndexes == 0..(Pow2(table_bits) - 1)

\* C2: for complete lengths and table_bits = max_codeword_len the table is
\* built (result 0) and every index whose leading lens[s] bits are the
\* canonical codeword of s holds the entry (s, lens[s]).
C2_RootTableHoldsCanonicalCode ==
    (hpc = "done" /\ table_bits = max_codeword_len /\ KraftSum = FullSpace)
        => /\ ret = 0
           /\ \A s \in UsedSyms : \A j \in CanonIndexes(s) :
                  /\ j \in DOMAIN decode_table
                  /\ decode_table[j] = MAKE_DECODE_TABLE_ENTRY(s, lens[s])

\* A complete code of three different lengths, filled by every store width.
C2_Witness ==
    /\ hpc = "done" /\ ret = 0 /\ table_bits = max_codeword_len
    /\ max_codeword_len = MaxLen /\ build = "sse2"
    /\ KraftSum = FullSpace
    /\ \E s, t, u \in UsedSyms : lens[s] = 1 /\ lens[t] = 2 /\ lens[u] = 3

\* C3: the result is -1 exactly for over-subscribed lengths and for an
\* incomplete code that is not empty, 0 exactly for a complete or an empty
\* code, and the empty code leaves 0 in every root entry.
C3_ResultClassifiesLengths ==
    hpc = "done"
        => /\ ret = -1 <=> (KraftSum > FullSpace
                              \/ (KraftSum < FullSpace /\ UsedSyms # {}))
           /\ ret = 0 <=> (KraftSum = FullSpace \/ UsedSyms = {})
           /\ UsedSyms = {} =>
                  /\ DOMAIN decode_table = RootIndexes
                  /\ \A j \in RootIndexes : decode_table[j] = 0

\* A single codeword of length 1 is refused.
C3_Witness ==
    /\ hpc = "done" /\ ret = -1
    /\ Cardinality(UsedSyms) = 1
    /\ \A s \in UsedSyms : lens[s] = 1

\* C4: with at least one used symbol the lengths are 0 for the unused ones
\* (but for the filler of the single-symbol case), at most max_codeword_len,
\* and they fill the codespace exactly.
C4_LengthsFillCodespace ==
    (hpc \in {"lens", "done"} /\ freqs # <<>> /\ NumUsed(freqs, num_syms) >= 1)
        => /\ \A s \in Syms : lens[s] \in 0..max_codeword_len
           /\ \A s \in Syms :
                  (freqs[s] = 0 /\ lens[s] # 0)
                      => /\ NumUsed(freqs, num_syms) = 1
                         /\ Cardinality(UsedSyms) = 2
           /\ \A s \in Syms : freqs[s] # 0 => lens[s] # 0
           /\ KraftSum = FullSpace

\* Frequencies 1, 1, 2, 3 give depths 3, 3, 2, 1, which the limit 2 caps.
C4_Witness ==
    /\ hpc = "lens" /\ num_syms = 4 /\ max_codeword_len = 2
    /\ freqs[0] = 1 /\ freqs[1] = 1 /\ freqs[2] = 2 /\ freqs[3] = 3
    /\ \A s \in Syms : lens[s] = 2

LZMS_X86_MAX_TRANSLATION_OFFSET == 1023
LZMS_X86_MAX_GOOD_TARGET_OFFSET == 65535

\* le16_to_cpu(*(const le16 *)&data[k])
Le16(d, k) == d[k] + 256 * d[k + 1]

\* The le32 at data[k] replaced by itself plus delta, modulo 2^32: the low
\* three bytes are added as one number, the carry goes into the fourth.
AddLe32(d, k, delta) ==
    LET low   == d[k] + 256 * d[k + 1] + 65536 * d[k + 2] + delta
        carry == low \div 16777216
        l24   == low % 16777216
    IN  [d EXCEPT ![k]     = l24 % 256,
                  ![k + 1] = (l24 \div 256) % 256,
                  ![k + 2] = l24 \div 65536,
                  ![k + 3] = (d[k + 3] + carry) % 256]

\* last_target_usages[pos], every entry starting at
\* -LZMS_X86_MAX_GOOD_TARGET_OFFSET - 1.
LastTargetUsage(ltu, pos) ==
    IF pos \in DOMAIN ltu THEN ltu[pos] ELSE -LZMS_X86_MAX_GOOD_TARGET_OFFSET - 1

\* [n, max_offset]: the bytes to the operand (or to skip) and the largest
\* distance to translate over (0: not a translatable form).
lzms_may_x86_translate(d, i) ==
    LET p0 == d[i]
        p1 == d[i + 1]
        p2 == d[i + 2]
        other == [n |-> 1, max_offset |-> 0]
        rel3  == [n |-> 3, max_offset |-> LZMS_X86_MAX_TRANSLATION_OFFSET]
    IN  CASE p0 = 72 ->
               IF p1 = 139 THEN (IF p2 = 5 \/ p2 = 13 THEN rel3 ELSE other)
               ELSE IF p1 = 141 THEN (IF p2 % 8 = 5 THEN rel3 ELSE other)
               ELSE other
          [] p0 = 76 ->
               IF p1 = 141 /\ p2 % 8 = 5 THEN rel3 ELSE other
          [] p0 = 232 ->
               [n |-> 1, max_offset |-> LZMS_X86_MAX_TRANSLATION_OFFSET \div 2]
          [] p0 = 233 ->
               [n |-> 5, max_offset |-> 0]
          [] p0 = 240 ->
               IF p1 = 131 /\ p2 = 5 THEN rel3 ELSE other
          [] p0 = 255 ->
               IF p1 = 21
               THEN [n |-> 2, max_offset |-> LZMS_X86_MAX_TRANSLATION_OFFSET]
               ELSE other
          [] OTHER -> other

\* An undo pass that takes pos from the operand before it restores it.
lzms_maybe_do_x86_translation_pos_first(d, i, num_op_bytes, closest, ltu, max_trans_offset, undo) ==
    LET translate == i - closest <= max_trans_offset
        pos == (i + Le16(d, i + num_op_bytes)) % 65536
        d2  == IF translate
               THEN AddLe32(d, i + num_op_bytes, IF undo THEN -i ELSE i)
               ELSE d
        i2  == i + num_op_bytes + 4 - 1
    IN  [data |-> d2, i |-> i2 + 1, pos |-> pos, translated |-> translate,
         closest |-> IF i2 - LastTargetUsage(ltu, pos)
                           <= LZMS_X86_MAX_GOOD_TARGET_OFFSET
                     THEN i2 ELSE closest,
         ltu |-> [q \in (DOMAIN ltu) \cup {pos} |-> IF q = pos THEN i2 ELSE ltu[q]]]

lzms_maybe_do_x86_translation(d, i, num_op_bytes, closest, ltu, max_trans_offset, undo) ==
    LET translate == i - closest <= max_trans_offset
        \* undo: the operand is restored before pos is read from it
        d2  == IF translate
               THEN AddLe32(d, i + num_op_bytes, IF undo THEN -i ELSE i)
               ELSE d
        pos == IF undo THEN (i + Le16(d2, i + num_op_bytes)) % 65536
               ELSE (i + Le16(d, i + num_op_bytes)) % 65536
        i2  == i + num_op_bytes + 4 - 1
    IN  [data |-> d2, i |-> i2 + 1, pos |-> pos, translated |-> translate,
         closest |-> IF i2 - LastTargetUsage(ltu, pos)
                           <= LZMS_X86_MAX_GOOD_TARGET_OFFSET
                     THEN i2 ELSE closest,
         ltu |-> [q \in (DOMAIN ltu) \cup {pos} |-> IF q = pos THEN i2 ELSE ltu[q]]]

\* The last bytes of the buffer are never taken as the start of an
\* instruction: for (i = 0; i < size - 11; ).
X86_TAIL == 11

RECURSIVE lzms_x86_filter_loop(_, _, _, _, _, _, _)
lzms_x86_filter_loop(d, sz, undo, i, closest, ltu, trace) ==
    IF ~(i < sz - X86_TAIL) THEN [data |-> d, trace |-> trace]
    ELSE LET c == lzms_may_x86_translate(d, i)
             r == lzms_maybe_do_x86_translation(d, i, c.n, closest, ltu,
                                                c.max_offset, undo)
         IN  IF c.max_offset # 0
             THEN lzms_x86_filter_loop(r.data, sz, undo, r.i, r.closest, r.ltu,
                      Append(trace, [i |-> i, n |-> c.n, pos |-> r.pos,
                                     translated |-> r.translated]))
             ELSE lzms_x86_filter_loop(d, sz, undo, i + c.n, closest, ltu,
                      Append(trace, [i |-> i, n |-> c.n, pos |-> -1,
                                     translated |-> FALSE]))

lzms_x86_filter(d, sz, undo) ==
    lzms_x86_filter_loop(d, sz, undo, 0, -LZMS_X86_MAX_TRANSLATION_OFFSET - 1,
                         <<>>, <<>>)

\* The pieces the buffers are made of: calls with operands 0 and -5 (the
\* second, five bytes after the first, has the same target window), a
\* load relative with operand -10, an indirect call, a relative jump, a lone
\* REX prefix and a zero byte.
Chunks ==
    { <<232, 0, 0, 0, 0>>,
      <<232, 251, 255, 255, 255>>,
      <<72, 139, 5, 246, 255, 255, 255>>,
      <<255, 21, 0, 0, 1, 128>>,
      <<233, 1, 2, 3, 4>>,
      <<72>>,
      <<0>> }

RECURSIVE Flatten(_)
Flatten(seq) == IF seq = <<>> THEN <<>> ELSE Head(seq) \o Flatten(Tail(seq))

\* The chunks followed by pad bytes (of value 232), as data[0 .. size-1].
BufferOf(chunks, pad) ==
    LET bytes == Flatten(chunks) \o [k \in 1..pad |-> 232]
    IN  [k \in 0..(Len(bytes) - 1) |-> bytes[k + 1]]

InitX86 ==
    /\ HuffIdle /\ SlotIdle /\ TreeIdle /\ MetaIdle /\ WinIdle /\ LruIdle /\ WalkIdle /\ ScanIdle
    /\ xpc = "raw"
    /\ \E len \in 1..MaxChunks : \E chunks \in [1..len -> Chunks] :
       \E pad \in {0, X86_TAIL} :
           data = BufferOf(chunks, pad)
    /\ orig = data
    /\ size = Cardinality(DOMAIN data)
    /\ fwd_trace = <<>> /\ undo_trace = <<>>

\* lzms_x86_filter(data, size, last_target_usages, false)
FilterForward ==
    /\ xpc = "raw"
    /\ LET r == lzms_x86_filter(data, size, FALSE)
       IN  data' = r.data /\ fwd_trace' = r.trace
    /\ xpc' = "translated"
    /\ UNCHANGED <<size, orig, undo_trace>>
    /\ UNCHANGED <<huffVars, slotVars, treeVars, metaVars, winVars, lruVars, walkVars, scanVars>>

\* lzms_x86_filter(data, size, last_target_usages, true)
FilterUndo ==
    /\ xpc = "translated"
    /\ LET r == lzms_x86_filter(data, size, TRUE)
       IN  data' = r.data /\ undo_trace' = r.trace
    /\ xpc' = "restored"
    /\ UNCHANGED <<size, orig, fwd_trace>>
    /\ UNCHANGED <<huffVars, slotVars, treeVars, metaVars, winVars, lruVars, walkVars, scanVars>>

NextX86 == FilterForward \/ FilterUndo
SpecX86 == InitX86 /\ [][NextX86]_vars

\* C6: the undo = true pass after the undo = false pass restores every byte,
\* and it visits the same indices, classifies them alike, computes the same
\* target windows and takes the same decisions.
C6_FilterInvolution ==
    xpc = "restored" => (data = orig /\ undo_trace = fwd_trace)

\* An operand was translated at an index above 0, with a carry out of its
\* low bytes, and restored.
C6_Witness ==
    /\ xpc = "restored"
    /\ \E k \in DOMAIN fwd_trace :
           /\ fwd_trace[k].translated /\ fwd_trace[k].i > 0
           /\ orig[fwd_trace[k].i + fwd_trace[k].n] = 251

(***************************************************************************)
(* lzms-common.c: lzms_init_slot_bases                                      *)
(*                                                                          *)
(* already_computed is a plain bool, read once without the mutex.  That     *)
(* read races with the store under the mutex, so nothing orders it against  *)
(* the stores of lzms_compute_slot_bases: the stores of the critical        *)
(* section reach memory in any order before the unlock, and the unlocked    *)
(* read returns what memory holds or the value from before the store.       *)
(***************************************************************************)
Threads == 1..NumThreads

POSITION_SENTINEL == 2147483647     \* 0x7fffffff
LENGTH_SENTINEL == 1073809579       \* 0x400108ab

\* The stores of lzms_compute_slot_bases and the one of already_computed.
TableStores == {"position_slots", "position_sentinel", "length_slots",
                "length_sentinel"}
ComputeStores == TableStores \cup {"already_computed"}

\* The tables of a fresh process: zero-initialised.
ZeroSlotBases ==
    [position_slots |-> FALSE, position_sentinel |-> 0,
     length_slots |-> FALSE, length_sentinel |-> 0]

lzms_compute_slot_bases ==
    [position_slots |-> TRUE, position_sentinel |-> POSITION_SENTINEL,
     length_slots |-> TRUE, length_sentinel |-> LENGTH_SENTINEL]

InitSlots ==
    /\ HuffIdle /\ X86Idle /\ TreeIdle /\ MetaIdle /\ WinIdle /\ LruIdle /\ WalkIdle /\ ScanIdle
    /\ tpc = [t \in Threads |-> "start"]
    /\ mutex = 0
    /\ already_computed = FALSE
    /\ slot_base = ZeroSlotBases
    /\ todo = {}
    /\ computes = 0
    /\ slot_call = <<>>

\* if (unlikely(!already_computed)), outside the mutex.
CheckUnlocked(t) ==
    /\ tpc[t] = "start"
    /\ \E seen \in {already_computed, FALSE} :
           tpc' = [tpc EXCEPT ![t] = IF seen THEN "done" ELSE "lock"]
    /\ UNCHANGED <<mutex, already_computed, slot_base, todo, computes>>
    /\ UNCHANGED <<huffVars, x86Vars, treeVars, metaVars, winVars, lruVars, walkVars, scanVars, slot_call>>

\* pthread_mutex_lock(&mutex)
Lock(t) ==
    /\ tpc[t] = "lock" /\ mutex = 0
    /\ mutex' = t
    /\ tpc' = [tpc EXCEPT ![t] = "check"]
    /\ UNCHANGED <<already_computed, slot_base, todo, computes>>
    /\ UNCHANGED <<huffVars, x86Vars, treeVars, metaVars, winVars, lruVars, walkVars, scanVars, slot_call>>

\* if (!already_computed), under the mutex; entering
\* lzms_compute_slot_bases issues its stores and the one of the flag.
CheckLocked(t) ==
    /\ tpc[t] = "check"
    /\ IF already_computed
       THEN /\ tpc' = [tpc EXCEPT ![t] = "unlock"]
            /\ UNCHANGED <<todo, computes>>
       ELSE /\ tpc' = [tpc EXCEPT ![t] = "compute"]
            /\ todo' = ComputeStores
            /\ computes' = computes + 1
    /\ UNCHANGED <<mutex, already_computed, slot_base>>
    /\ UNCHANGED <<huffVars, x86Vars, treeVars, metaVars, winVars, lruVars, walkVars, scanVars, slot_call>>

\* One of the stores of the critical section reaches memory.
CommitStore(t) ==
    /\ tpc[t] = "compute"
    /\ \E st \in todo :
           /\ todo' = todo \ {st}
           /\ IF st = "already_computed"
              THEN already_computed' = TRUE /\ UNCHANGED slot_base
              ELSE /\ slot_base' = [slot_base EXCEPT ![st] = lzms_compute_slot_bases[st]]
                   /\ UNCHANGED already_computed
    /\ UNCHANGED <<tpc, mutex, computes>>
    /\ UNCHANGED <<huffVars, x86Vars, treeVars, metaVars, winVars, lruVars, walkVars, scanVars, slot_call>>

\* The critical section is left once all of its stores are in memory.
EndCompute(t) ==
    /\ tpc[t] = "compute" /\ todo = {}
    /\ tpc' = [tpc EXCEPT ![t] = "unlock"]
    /\ UNCHANGED <<mutex, already_computed, slot_base, todo, computes>>
    /\ UNCHANGED <<huffVars, x86Vars, treeVars, metaVars, winVars, lruVars, walkVars, scanVars, slot_call>>

\* pthread_mutex_unlock(&mutex), and the return.
Unlock(t) ==
    /\ tpc[t] = "unlock"
    /\ mutex' = 0
    /\ tpc' = [tpc EXCEPT ![t] = "done"]
    /\ UNCHANGED <<already_computed, slot_base, todo, computes>>
    /\ UNCHANGED <<huffVars, x86Vars, treeVars, metaVars, winVars, lruVars, walkVars, scanVars, slot_call>>

NextSlots ==
    \E t \in Threads :
        \/ CheckUnlocked(t)
        \/ Lock(t)
        \/ CheckLocked(t)
        \/ CommitStore(t)
        \/ EndCompute(t)
        \/ Unlock(t)

SpecSlots == InitSlots /\ [][NextSlots]_vars

Returned(t) == tpc[t] = "done"
TablesWritten == slot_base = lzms_compute_slot_bases
WritingTables(t) == tpc[t] = "compute" /\ todo \cap TableStores # {}

\* C7: lzms_compute_slot_bases runs once, no thread has returned while a
\* table or a sentinel is still to be written, and no thread writes the
\* tables while another has returned.
C7_ReturnedThreadsSeeTables ==
    /\ computes <= 1
    /\ \A t \in Threads : Returned(t) => (computes = 1 /\ TablesWritten)
    /\ \A w, t \in Threads : (w # t /\ WritingTables(w)) => ~Returned(t)

\* What does hold: the computation is entered at most once, and a thread
\* that went through the mutex returns with the tables written.
SlotsComputedOnce ==
    /\ computes <= 1
    /\ \A t \in Threads : tpc[t] = "unlock" => (computes = 1 /\ TablesWritten)

(***************************************************************************)
(* dentry.c: the dentry tree, its two name indexes and path lookup          *)
(*                                                                          *)
(* A directory has one dentry (no directory hard links), so its inode's     *)
(* indexes are kept per dentry.  An index is the set of the dentries in     *)
(* it: avl_tree_insert adds a node unless the comparator finds an equal     *)
(* one, which it returns.                                                   *)
(***************************************************************************)
NULL == -1
ROOT == 0
Dentries == 0..NumDentries

\* inode_is_directory: the last dentry is a plain file, the others are
\* directories.
dentry_is_directory(d) == d # NumDentries

WIM_PATH_SEPARATOR == "/"
NUL == "nul"

\* The long names dentries are created with.
Names ==
    { <<"a", "a">>, <<"a", "A">>, <<"A", "a">>,
      <<"a", "a", WIM_PATH_SEPARATOR, "a", "a">>, <<"a", "a", NUL>> }

\* The upper-casing table of the case-insensitive comparison.
Upcase(name) ==
    [k \in DOMAIN name |-> IF name[k] = "a" THEN "A" ELSE name[k]]

\* cmp_utf16le_strings(...) == 0, case-sensitively and ignoring case.
SameName(n1, n2) == n1 = n2
SameNameCi(n1, n2) == Upcase(n1) = Upcase(n2)

dentry_is_root(d) == d_parent[d] = d

\* A case-sensitive index that finds nothing.
dir_lookup_none(dir, name) == NULL

\* avl_tree_lookup_node under _avl_dentry_compare_names.
dir_lookup(dir, name) ==
    IF \E c \in i_children[dir] : SameName(file_name[c], name)
    THEN CHOOSE c \in i_children[dir] : SameName(file_name[c], name)
    ELSE NULL

\* A case-insensitive index that finds nothing.
dir_lookup_ci_none(dir, name) == NULL

\* avl_tree_lookup_node under _avl_dentry_compare_names_ci.
dir_lookup_ci(dir, name) ==
    IF \E c \in i_children_ci[dir] : SameNameCi(file_name[c], name)
    THEN CHOOSE c \in i_children_ci[dir] : SameNameCi(file_name[c], name)
    ELSE NULL

\* A walk that does not look at the conflict list.
ConflictWalkNone(child, alt, name) == child

\* The do-while over the conflict list of the representative child.
RECURSIVE ConflictWalk(_, _, _)
ConflictWalk(child, alt, name) ==
    IF SameName(file_name[alt], name) THEN alt
    ELSE IF ci_next[alt] = child THEN child
    ELSE ConflictWalk(child, ci_next[alt], name)

get_dentry_child_with_utf16le_name(dentry, name, ignore_case) ==
    IF ~ignore_case THEN dir_lookup(dentry, name)
    ELSE LET child == dir_lookup_ci(dentry, name)
         IN  IF child = NULL THEN NULL
             ELSE IF ci_next[child] = child THEN child
             ELSE ConflictWalk(child, child, name)

\* A skip of one separator at most.
SkipSeparatorsOne(path) ==
    IF path # <<>> /\ Head(path) = WIM_PATH_SEPARATOR THEN Tail(path) ELSE path

\* while (*name_start == WIM_PATH_SEPARATOR) name_start++: the path from
\* its first code unit that is not a separator on.
RECURSIVE SkipSeparators(_)
SkipSeparators(path) ==
    IF path # <<>> /\ Head(path) = WIM_PATH_SEPARATOR
    THEN SkipSeparators(Tail(path)) ELSE path

\* A component cut after its first code unit.
ComponentLenOne(path, k) == k

\* do { ++name_end; } while (*name_end != WIM_PATH_SEPARATOR && *name_end):
\* the length of the component the path starts with.
RECURSIVE ComponentLen(_, _)
ComponentLen(path, k) ==
    IF k < Len(path) /\ path[k + 1] # WIM_PATH_SEPARATOR /\ path[k + 1] # NUL
    THEN ComponentLen(path, k + 1) ELSE k

\* *name_start == 0: the end of the string.
AtEnd(path) == path = <<>> \/ Head(path) = NUL

\* The loop of get_dentry_utf16le: [dentry, errno].
RECURSIVE get_dentry_loop(_, _, _)
get_dentry_loop(cur_dentry, path, ignore_case) ==
    IF cur_dentry = NULL THEN [dentry |-> NULL, errno |-> "ENOENT"]
    ELSE IF ~AtEnd(path) /\ ~dentry_is_directory(cur_dentry)
    THEN [dentry |-> NULL, errno |-> "ENOTDIR"]
    ELSE LET name_start == SkipSeparators(path)
             n == ComponentLen(name_start, 1)
         IN  IF AtEnd(name_start) THEN [dentry |-> cur_dentry, errno |-> "none"]
             ELSE get_dentry_loop(
                      get_dentry_child_with_utf16le_name(
                          cur_dentry, SubSeq(name_start, 1, n), ignore_case),
                      SubSeq(name_start, n + 1, Len(name_start)), ignore_case)

get_dentry(path, ignore_case) == get_dentry_loop(ROOT, path, ignore_case)

\* get_dentry_utf16le(wim, path, case_type), root being what
\* wim_get_current_root_dentry(wim) returns: NULL for an image without a
\* root.
get_dentry_utf16le(root, path, ignore_case) ==
    get_dentry_loop(root, path, ignore_case)

\* The second do-while of calculate_dentry_full_path: separator and name of
\* every dentry from the given one up to, and without, the root of its chain.
RECURSIVE PathTo(_)
PathTo(d) ==
    LET here == <<WIM_PATH_SEPARATOR>> \o file_name[d]
    IN  IF dentry_is_root(d_parent[d]) THEN here ELSE PathTo(d_parent[d]) \o here

\* What dentry_full_path returns: the cached path if there is one.
dentry_full_path(d) == IF full_path[d] # <<>> THEN full_path[d] ELSE PathTo(d)

\* A list_add that leaves the lists as they are.
list_add_nothing(nx, pv, new, head) == [next |-> nx, prev |-> pv]

\* list_add(new, head) and list_del(entry) on the conflict lists.
list_add(nx, pv, new, head) ==
    LET after == nx[head]
        nx1 == [nx EXCEPT ![new] = after]
        pv1 == [pv EXCEPT ![new] = head]
        pv2 == [pv1 EXCEPT ![after] = new]
        nx2 == [nx1 EXCEPT ![head] = new]
    IN  [next |-> nx2, prev |-> pv2]

list_del(nx, pv, entry) ==
    LET nx1 == [nx EXCEPT ![pv[entry]] = nx[entry]]
        pv1 == [pv EXCEPT ![nx[entry]] = pv[entry]]
    IN  [next |-> [nx1 EXCEPT ![entry] = NULL], prev |-> [pv1 EXCEPT ![entry] = NULL]]

\* The dentries below d.
RECURSIVE Descendants(_)
Descendants(d) ==
    LET kids == {c \in Dentries : c # d /\ d_parent[c] = d}
        below == [c \in kids |-> Descendants(c)]
    IN  kids \cup UNION {below[c] : c \in kids}

\* new_dentry for each dentry, the root with an empty name.
InitTree ==
    /\ HuffIdle /\ X86Idle /\ SlotIdle /\ MetaIdle /\ WinIdle /\ LruIdle /\ WalkIdle /\ ScanIdle
    /\ \E names \in [1..NumDentries -> Names] :
           file_name = [d \in Dentries |-> IF d = ROOT THEN <<>> ELSE names[d]]
    /\ d_parent = [d \in Dentries |-> d]
    /\ i_children = [d \in Dentries |-> {}]
    /\ i_children_ci = [d \in Dentries |-> {}]
    /\ ci_next = [d \in Dentries |-> d]
    /\ ci_prev = [d \in Dentries |-> d]
    /\ ci_linked = [d \in Dentries |-> FALSE]
    /\ full_path = [d \in Dentries |-> <<>>]
    /\ tree_last = [op |-> "none", ret |-> NULL]

\* dentry_add_child(parent, child): parent names a directory, child is
\* unlinked, and the link makes no cycle.
AddChild(parent, child) ==
    /\ parent # child /\ child # ROOT
    /\ dentry_is_directory(parent)
    /\ dentry_is_root(child)
    /\ parent \notin Descendants(child)
    /\ LET duplicate == dir_lookup(parent, file_name[child])
           dup_ci    == dir_lookup_ci(parent, file_name[child])
           added     == list_add(ci_next, ci_prev, child, dup_ci)
       IN  IF duplicate # NULL
           THEN /\ tree_last' = [op |-> "add", ret |-> duplicate]
                /\ UNCHANGED <<d_parent, i_children, i_children_ci, ci_next,
                               ci_prev, ci_linked>>
           ELSE /\ i_children' = [i_children EXCEPT ![parent] = @ \cup {child}]
                /\ IF dup_ci # NULL
                   THEN /\ ci_next' = added.next
                        /\ ci_prev' = added.prev
                        /\ ci_linked' = [ci_linked EXCEPT ![child] = FALSE]
                        /\ UNCHANGED i_children_ci
                   ELSE /\ i_children_ci' =
                               [i_children_ci EXCEPT ![parent] = @ \cup {child}]
                        /\ ci_linked' = [ci_linked EXCEPT ![child] = TRUE]
                        /\ ci_next' = [ci_next EXCEPT ![child] = child]
                        /\ ci_prev' = [ci_prev EXCEPT ![child] = child]
                /\ d_parent' = [d_parent EXCEPT ![child] = parent]
                /\ tree_last' = [op |-> "add", ret |-> NULL]
    /\ UNCHANGED <<file_name, full_path>>
    /\ UNCHANGED <<huffVars, x86Vars, slotVars, metaVars, winVars, lruVars, walkVars, scanVars>>

\* unlink_dentry(dentry), of a linked dentry.
Unlink(dentry) ==
    /\ ~dentry_is_root(dentry)
    /\ LET dir      == d_parent[dentry]
           promote  == ci_linked[dentry] /\ ci_next[dentry] # dentry
           other    == ci_next[dentry]
           ci1      == i_children_ci[dir] \ {dentry}
           existing == IF \E c \in ci1 : SameNameCi(file_name[c], file_name[other])
                       THEN CHOOSE c \in ci1 : SameNameCi(file_name[c], file_name[other])
                       ELSE NULL
           deleted  == list_del(ci_next, ci_prev, dentry)
       IN  /\ i_children' = [i_children EXCEPT ![dir] = @ \ {dentry}]
           /\ i_children_ci' =
                  [i_children_ci EXCEPT ![dir] =
                      IF ~ci_linked[dentry] THEN @
                      ELSE IF promote /\ existing = NULL THEN ci1 \cup {other}
                      ELSE ci1]
           /\ ci_linked' = IF promote /\ existing = NULL
                           THEN [ci_linked EXCEPT ![other] = TRUE]
                           ELSE ci_linked
           /\ ci_next' = deleted.next
           /\ ci_prev' = deleted.prev
           /\ d_parent' = [d_parent EXCEPT ![dentry] = dentry]
           /\ tree_last' = [op |-> "unlink", ret |-> IF promote THEN other ELSE NULL]
    /\ UNCHANGED <<file_name, full_path>>
    /\ UNCHANGED <<huffVars, x86Vars, slotVars, metaVars, winVars, lruVars, walkVars, scanVars>>

\* dentry_full_path(dentry): the path is calculated unless one is cached.
\* No more than MaxCached dentries are asked for their path.
FullPath(dentry) ==
    /\ full_path[dentry] = <<>>
    /\ Cardinality({d \in Dentries : full_path[d] # <<>>}) < MaxCached
    /\ full_path' = [full_path EXCEPT ![dentry] = PathTo(dentry)]
    /\ tree_last' = [op |-> "full_path", ret |-> NULL]
    /\ UNCHANGED <<file_name, d_parent, i_children, i_children_ci, ci_next,
                   ci_prev, ci_linked>>
    /\ UNCHANGED <<huffVars, x86Vars, slotVars, metaVars, winVars, lruVars, walkVars, scanVars>>

NextTree ==
    \/ \E parent, child \in Dentries : AddChild(parent, child)
    \/ \E dentry \in Dentries : Unlink(dentry)

SpecTree == InitTree /\ [][NextTree]_vars

NextPath ==
    \/ \E parent, child \in Dentries : AddChild(parent, child)
    \/ \E dentry \in Dentries : Unlink(dentry)
    \/ \E dentry \in Dentries : FullPath(dentry)

SpecPath == InitTree /\ [][NextPath]_vars

\* The paths that are looked up: the code units before the first NUL make
\* up to three components, with leading, repeated and trailing separators.
Paths ==
    { <<>>, <<NUL>>, <<"/">>, <<"/", "/">>,
      <<"a", "a">>, <<"a", "A">>, <<"a">>,
      <<"/", "a", "a">>, <<"/", "/", "a", "a", NUL>>,
      <<"a", "a", "/">>, <<"a", "a", "/", "/">>, <<"A", "a", "/">>,
      <<"a", "a", "/", "a", "a">>, <<"a", "a", "/", "/", "a", "a">>,
      <<"/", "a", "a", "/", "a", "A", "/">>,
      <<"a", "a", "/", "a">>,
      <<"a", "a", NUL, "/", "a", "a">>,
      <<"a", "a", "/", "a", "a", "/", "a", "a">>,
      <<"a", "a", "/", "/", "a", "a", "/", "A", "a", "/", "/">> }

\* get_dentry(wim, path, case_type) on the tree as it is.  An image that no
\* file has been added to may have no root yet.
GetDentry(path, ignore_case) ==
    /\ tree_last.op # "get_dentry"
    /\ \E root \in {ROOT} \cup (IF i_children[ROOT] = {} THEN {NULL} ELSE {}) :
           \E found \in {get_dentry_utf16le(root, path, ignore_case)} :
               tree_last' = [op |-> "get_dentry", ret |-> found.dentry,
                             errno |-> found.errno, root |-> root,
                             path |-> path, ignore_case |-> ignore_case]
    /\ UNCHANGED <<file_name, d_parent, i_children, i_children_ci, ci_next,
                   ci_prev, ci_linked, full_path>>
    /\ UNCHANGED <<huffVars, x86Vars, slotVars, metaVars, winVars, lruVars, walkVars, scanVars>>

NextLookup ==
    \/ \E parent, child \in Dentries : AddChild(parent, child)
    \/ \E dentry \in Dentries : Unlink(dentry)
    \/ \E path \in Paths, ignore_case \in BOOLEAN : GetDentry(path, ignore_case)

SpecLookup == InitTree /\ [][NextLookup]_vars

(***************************************************************************)
(* Properties of the dentry tree.                                           *)
(***************************************************************************)
ChildrenOf(dir) == {d \in Dentries : d # dir /\ d_parent[d] = dir}

\* The dentries on the conflict list that holds d, d included.
RECURSIVE Ring(_, _)
Ring(cur, acc) == IF cur \in acc THEN acc ELSE Ring(ci_next[cur], acc \cup {cur})

CiClass(dir, c) == {e \in ChildrenOf(dir) : SameNameCi(file_name[e], file_name[c])}

\* C1: the case-sensitive index of a directory holds exactly the dentries
\* whose d_parent it is; the case-insensitive index holds exactly one member
\* of every case-insensitive class of its children, the conflict list of
\* which holds the whole class; and an unlink that promoted a dentry left it
\* in the case-insensitive index.
C1_IndexesMatchParentPointers ==
    /\ \A dir \in Dentries :
           /\ i_children[dir] = ChildrenOf(dir)
           /\ i_children_ci[dir] \subseteq ChildrenOf(dir)
           /\ \A c \in ChildrenOf(dir) :
                  /\ Cardinality(CiClass(dir, c) \cap i_children_ci[dir]) = 1
                  /\ \A rep \in CiClass(dir, c) \cap i_children_ci[dir] :
                         Ring(rep, {}) = CiClass(dir, c)
                  /\ ci_linked[c] <=> c \in i_children_ci[dir]
    /\ (tree_last.op = "unlink" /\ tree_last.ret # NULL)
           => /\ ~dentry_is_root(tree_last.ret)
              /\ tree_last.ret \in i_children_ci[d_parent[tree_last.ret]]

\* The representative of a class of three was unlinked: another member was
\* promoted and the third is on its conflict list.
C1_Witness ==
    /\ tree_last.op = "unlink" /\ tree_last.ret # NULL
    /\ Cardinality(Ring(tree_last.ret, {})) = 2
    /\ tree_last.ret \in i_children_ci[d_parent[tree_last.ret]]

\* The dentries linked in the tree of the image, below its root.
RECURSIVE ReachesRoot(_)
ReachesRoot(d) == IF dentry_is_root(d) THEN d = ROOT ELSE ReachesRoot(d_parent[d])
InTree(d) == d # ROOT /\ ReachesRoot(d)

\* The names from d up to the root hold neither a separator nor a NUL.
RECURSIVE PlainChain(_)
PlainChain(d) ==
    \/ dentry_is_root(d)
    \/ /\ \A k \in DOMAIN file_name[d] :
              file_name[d][k] \notin {WIM_PATH_SEPARATOR, NUL}
       /\ PlainChain(d_parent[d])

RECURSIVE PathText(_)
PathText(path) ==
    IF path = <<>> \/ Head(path) = NUL THEN <<>>
    ELSE <<Head(path)>> \o PathText(Tail(path))

\* The components of a text: its maximal runs of code units other than the
\* separator; cur is the run being read.
RECURSIVE Components(_, _)
Components(text, cur) ==
    IF text = <<>> THEN (IF cur = <<>> THEN <<>> ELSE <<cur>>)
    ELSE IF Head(text) = WIM_PATH_SEPARATOR
    THEN (IF cur = <<>> THEN <<>> ELSE <<cur>>) \o Components(Tail(text), <<>>)
    ELSE Components(Tail(text), Append(cur, Head(text)))

\* The dentry the first k components resolve to from the root down, NULL
\* if one of them is absent from where the ones before it resolve to.
RECURSIVE Resolves(_, _, _, _)
Resolves(root, comps, k, ignore_case) ==
    IF k = 0 THEN root
    ELSE LET up == Resolves(root, comps, k - 1, ignore_case)
         IN  IF up = NULL THEN NULL
             ELSE get_dentry_child_with_utf16le_name(up, comps[k], ignore_case)

\* What C11 says a lookup returns.
LookupContract(root, path, ignore_case) ==
    LET text  == PathText(path)
        comps == Components(text, <<>>)
        n     == Len(comps)
        trailing == text # <<>> /\ text[Len(text)] = WIM_PATH_SEPARATOR
        last  == Resolves(root, comps, n, ignore_case)
    IN  IF root = NULL THEN [dentry |-> NULL, errno |-> "ENOENT"]
        ELSE IF \E k \in 1..n :
                    /\ Resolves(root, comps, k, ignore_case) # NULL
                    /\ ~dentry_is_directory(Resolves(root, comps, k, ignore_case))
                    /\ (k < n \/ trailing)
        THEN [dentry |-> NULL, errno |-> "ENOTDIR"]
        ELSE IF last = NULL THEN [dentry |-> NULL, errno |-> "ENOENT"]
        ELSE [dentry |-> last, errno |-> "none"]

\* A path without its leading separators and with one separator for every
\* run of separators.
RECURSIVE Squeeze(_, _)
Squeeze(path, after_separator) ==
    IF path = <<>> THEN <<>>
    ELSE IF Head(path) = WIM_PATH_SEPARATOR
    THEN (IF after_separator THEN <<>> ELSE <<WIM_PATH_SEPARATOR>>)
         \o Squeeze(Tail(path), TRUE)
    ELSE <<Head(path)>> \o Squeeze(Tail(path), FALSE)

LookupNames ==
    { <<"a", "a">>, <<"a", "A">>, <<"A", "a">>, <<"A", "A">>, <<"a">> }

\* C12: a case-insensitive child lookup returns NULL iff no child of the
\* directory has a name equal to the requested one ignoring case; it returns
\* the child with exactly the requested name if there is one, whichever
\* child represents the class in the case-insensitive index, and the
\* representative otherwise.
C12_CaseInsensitiveLookup ==
    \A dir \in Dentries, name \in LookupNames :
        LET found   == get_dentry_child_with_utf16le_name(dir, name, TRUE)
            matches == {c \in ChildrenOf(dir) : SameNameCi(file_name[c], name)}
            exact   == {c \in matches : file_name[c] = name}
        IN  /\ found = NULL <=> matches = {}
            /\ exact # {} => found \in exact
            /\ (matches # {} /\ exact = {})
                   => found \in matches \cap i_children_ci[dir]

\* A case-insensitive get_dentry returned a child that has the requested
\* name and is not the representative of its class, in a directory where
\* another name finds the representative of the same class.
C12_Witness ==
    /\ tree_last.op = "get_dentry" /\ tree_last.ignore_case
    /\ tree_last.ret # NULL /\ tree_last.ret # ROOT
    /\ tree_last.ret \notin i_children_ci[d_parent[tree_last.ret]]
    /\ file_name[tree_last.ret] \in LookupNames
    /\ get_dentry_child_with_utf16le_name(
           d_parent[tree_last.ret], file_name[tree_last.ret], TRUE)
           = tree_last.ret
    /\ get_dentry_child_with_utf16le_name(
           d_parent[tree_last.ret], <<"A", "A">>, TRUE)
           \in i_children_ci[d_parent[tree_last.ret]]

\* The dentries on the conflict lists of the children of the directories.
OnConflictLists ==
    UNION {Ring(c, {}) : c \in UNION {ChildrenOf(dir) : dir \in Dentries}}

\* C13: dentry_add_child returns NULL and links the child iff the parent
\* has no child with the case-sensitive name of the child; otherwise it
\* returns the linked dentry with that name and changes nothing: the child
\* still is its own parent, is in no index and on no conflict list, and
\* the indexes and the conflict lists are as they were.
C13_AddChildDuplicate ==
    [][\A parent, child \in Dentries :
           AddChild(parent, child) =>
               LET same == {c \in ChildrenOf(parent) :
                               file_name[c] = file_name[child]}
               IN  IF same = {}
                   THEN /\ tree_last'.ret = NULL
                        /\ d_parent'[child] = parent
                        /\ child \in i_children'[parent]
                   ELSE /\ tree_last'.ret \in same
                        /\ d_parent'[child] = child
                        /\ \A dir \in Dentries :
                               /\ child \notin i_children'[dir]
                               /\ child \notin i_children_ci'[dir]
                        /\ child \notin OnConflictLists
                        /\ UNCHANGED <<d_parent, i_children, i_children_ci,
                                       ci_next, ci_prev, ci_linked>>]_vars

\* dentry_add_child returned a duplicate that has a conflict list, for a
\* child that was linked and unlinked before.
C13_Witness ==
    /\ tree_last.op = "add" /\ tree_last.ret # NULL
    /\ Cardinality(Ring(tree_last.ret, {})) = 2
    /\ \E child \in Dentries \ {ROOT} :
           /\ dentry_is_root(child)
           /\ file_name[child] = file_name[tree_last.ret]
           /\ ci_next[child] = NULL

(***************************************************************************)
(* dentry.c: the on-disk codec of the dentry tree                           *)
(*                                                                          *)
(* The metadata resource is held as what lies at which byte offset: a       *)
(* dentry record, an extra stream entry, or the 8 zero bytes that end a     *)
(* list of siblings.  Lengths and offsets are the byte counts of the code;  *)
(* they stay far below 2^64.  A name is its sequence of code units, so      *)
(* its length in bytes is twice its length.  A hash is a number, 0 for the  *)
(* all-zero hash.  The attributes are the set of the flags that are set.    *)
(***************************************************************************)
WIM_DENTRY_DISK_SIZE == 102
WIM_EXTRA_STREAM_ENTRY_DISK_SIZE == 38

WIMLIB_ERR_SUCCESS == "SUCCESS"
WIMLIB_ERR_INVALID_METADATA_RESOURCE == "INVALID_METADATA_RESOURCE"

NO_STREAM_NAME == <<>>
zero_hash == 0

\* (n + 7) & ~7
Align8(n) == ((n + 7) \div 8) * 8

\* A u64 is held as the integer congruent to it modulo 2^64 that is nearest
\* to 0, so that -1 is 0xffffffffffffffff: the sums and the rounding
\* (n + 7) & ~7 of u64s near 0 or near 2^64 are those of these integers.
\* u64_less is the order of the u64s.
u64_less(a, b) == IF (a < 0) = (b < 0) THEN a < b ELSE b < 0

\* inode_is_directory: a directory that is not a reparse point.
inode_is_directory(inode) ==
    inode.i_attributes \cap {"DIRECTORY", "REPARSE_POINT"} = {"DIRECTORY"}

stream_is_named(strm) == strm.stream_name # NO_STREAM_NAME

stream_is_named_data_stream(strm) ==
    stream_is_named(strm) /\ strm.stream_type = "DATA"

\* The code units the names of the model are made of, by value.
CodeUnit(c) == CASE c = "." -> 46 [] c = "a" -> 97 [] c = "b" -> 98

\* cmp_utf16le_strings(n1, n2, false) < 0.
RECURSIVE NameLess(_, _)
NameLess(n1, n2) ==
    IF n1 = <<>> THEN n2 # <<>>
    ELSE IF n2 = <<>> THEN FALSE
    ELSE IF Head(n1) # Head(n2) THEN CodeUnit(Head(n1)) < CodeUnit(Head(n2))
    ELSE NameLess(Tail(n1), Tail(n2))

dentry_min_len_with_names(file_name_nbytes, short_name_nbytes) ==
    WIM_DENTRY_DISK_SIZE
        + (IF file_name_nbytes # 0 THEN file_name_nbytes + 2 ELSE 0)
        + (IF short_name_nbytes # 0 THEN short_name_nbytes + 2 ELSE 0)

stream_out_total_length(strm) ==
    Align8(WIM_EXTRA_STREAM_ENTRY_DISK_SIZE
               + (IF stream_is_named(strm)
                  THEN 2 * Len(strm.stream_name) + 2 ELSE 0))

\* The sum of f[i] over the indexes i of a sequence.
RECURSIVE SumSeq(_)
SumSeq(f) == IF f = <<>> THEN 0 ELSE Head(f) + SumSeq(Tail(f))

dentry_out_total_length(dentry) ==
    LET inode == dentry.d_inode
        strms == inode.i_streams
        len1  == Align8(dentry_min_len_with_names(2 * Len(dentry.file_name),
                                                  2 * Len(dentry.short_name)))
        len2  == IF inode.i_extra_size # 0
                 THEN Align8(len1 + inode.i_extra_size) ELSE len1
        have_named_data_stream ==
            \E i \in DOMAIN strms : stream_is_named_data_stream(strms[i])
        have_reparse_point_stream ==
            \E i \in DOMAIN strms : strms[i].stream_type = "REPARSE_POINT"
        named == SumSeq([i \in DOMAIN strms |->
                            IF stream_is_named_data_stream(strms[i])
                            THEN stream_out_total_length(strms[i]) ELSE 0])
        unnamed == Align8(WIM_EXTRA_STREAM_ENTRY_DISK_SIZE)
    IN  IF "ENCRYPTED" \in inode.i_attributes THEN len2
        ELSE len2 + named
                  + (IF have_named_data_stream \/ have_reparse_point_stream
                     THEN (IF have_reparse_point_stream THEN unnamed ELSE 0)
                              + unnamed
                     ELSE 0)

\* for_dentry_child: the children of a directory in the order of its
\* case-sensitive index.
ChildSet(tree, dir) ==
    {c \in DOMAIN tree : c # dir /\ tree[c].d_parent = dir}

RECURSIVE SortByName(_, _)
SortByName(tree, set) ==
    IF set = {} THEN <<>>
    ELSE LET first == CHOOSE c \in set :
                          \A e \in set \ {c} :
                              NameLess(tree[c].file_name, tree[e].file_name)
         IN  <<first>> \o SortByName(tree, set \ {first})

for_dentry_child(tree, dir) == SortByName(tree, ChildSet(tree, dir))

\* do_for_dentry_in_tree: the dentries in the order they are visited.
RECURSIVE PreOrderOf(_, _)
RECURSIVE PreOrder(_, _)
PreOrderOf(tree, children) ==
    IF children = <<>> THEN <<>>
    ELSE PreOrder(tree, Head(children)) \o PreOrderOf(tree, Tail(children))

PreOrder(tree, dentry) ==
    <<dentry>> \o PreOrderOf(tree, for_dentry_child(tree, dentry))

\* dentry_calculate_subdir_offset on each dentry of the sequence in turn:
\* [tree, subdir_offset].
RECURSIVE calculate_subdir_offsets_loop(_, _, _)
calculate_subdir_offsets_loop(tree, todo_seq, subdir_offset) ==
    IF todo_seq = <<>> THEN [tree |-> tree, subdir_offset |-> subdir_offset]
    ELSE LET dentry   == Head(todo_seq)
             children == for_dentry_child(tree, dentry)
             lengths  == [k \in DOMAIN children |->
                             dentry_out_total_length(tree[children[k]])]
         IN  IF inode_is_directory(tree[dentry].d_inode)
             THEN calculate_subdir_offsets_loop(
                      [tree EXCEPT ![dentry].subdir_offset = subdir_offset],
                      Tail(todo_seq),
                      subdir_offset + SumSeq(lengths) + 8)
             ELSE calculate_subdir_offsets_loop(
                      [tree EXCEPT ![dentry].subdir_offset = 0],
                      Tail(todo_seq), subdir_offset)

calculate_subdir_offsets(tree, root, subdir_offset) ==
    calculate_subdir_offsets_loop(tree, PreOrder(tree, root), subdir_offset)

\* The 8 zero bytes that end a list of siblings.
END_OF_DIRECTORY == [length |-> 0]

\* The output of the writer, out, is [p, items]: the pointer p and what has
\* been written where.
\* write_extra_stream_entry(p, name, hash)
write_extra_stream_entry(out, name, hash) ==
    LET p == out.p
        name_nbytes == IF name = NO_STREAM_NAME THEN 0 ELSE 2 * Len(name)
        end == Align8(p + WIM_EXTRA_STREAM_ENTRY_DISK_SIZE
                        + (IF name_nbytes # 0 THEN name_nbytes + 2 ELSE 0))
    IN  [p |-> end,
         items |-> out.items
                   @@ (p :> [length |-> end - p, hash |-> hash, name |-> name])]

\* One write_extra_stream_entry after the other.
RECURSIVE write_extra_stream_entries(_, _)
write_extra_stream_entries(out, entries) ==
    IF entries = <<>> THEN out
    ELSE write_extra_stream_entries(
             write_extra_stream_entry(out, Head(entries).name,
                                      Head(entries).hash),
             Tail(entries))

\* The indexes of the streams of a type that have no name.
UnnamedStreams(strms, type) ==
    {i \in DOMAIN strms :
        strms[i].stream_type = type /\ ~stream_is_named(strms[i])}

\* The hash of the last of the streams at the indexes hits, none if there
\* is no such stream: what a loop that overwrites a variable leaves.
LastHash(strms, hits, none) ==
    IF hits = {} THEN none
    ELSE strms[CHOOSE i \in hits : \A j \in hits : j <= i].hash

\* The union of reparse and nonreparse fields at offset 84.
DiskTail(inode) ==
    IF "REPARSE_POINT" \in inode.i_attributes
    THEN [reparse_tag |-> inode.i_reparse_tag]
    ELSE [hard_link_group_id |-> IF inode.i_nlink = 1 THEN 0 ELSE inode.i_ino]

\* The indexes of the reparse point streams of an inode.
ReparsePointStreams(strms) ==
    {i \in DOMAIN strms : strms[i].stream_type = "REPARSE_POINT"}

\* The entries with the unnamed data stream ahead of the reparse point
\* stream.
ExtraStreamEntriesUnnamedFirst(inode) ==
    LET strms == inode.i_streams
        named == SelectSeq(strms, stream_is_named_data_stream)
        have_reparse_point_stream == ReparsePointStreams(strms) # {}
    IN  IF ~(have_reparse_point_stream \/ named # <<>>) THEN <<>>
        ELSE <<[name |-> NO_STREAM_NAME,
                hash |-> LastHash(strms, UnnamedStreams(strms, "DATA"),
                                  zero_hash)]>>
             \o (IF have_reparse_point_stream
                 THEN <<[name |-> NO_STREAM_NAME,
                         hash |-> LastHash(strms, ReparsePointStreams(strms),
                                           zero_hash)]>>
                 ELSE <<>>)
             \o [k \in DOMAIN named |->
                    [name |-> named[k].stream_name, hash |-> named[k].hash]]

\* The extra stream entries of an unencrypted inode, in the order they are
\* written; none if it has neither a reparse point stream nor a named data
\* stream.
ExtraStreamEntries(inode) ==
    LET strms == inode.i_streams
        named == SelectSeq(strms, stream_is_named_data_stream)
        have_named_data_stream == named # <<>>
        have_reparse_point_stream == ReparsePointStreams(strms) # {}
    IN  IF ~(have_reparse_point_stream \/ have_named_data_stream) THEN <<>>
        ELSE (IF have_reparse_point_stream
              THEN <<[name |-> NO_STREAM_NAME,
                      hash |-> LastHash(strms, ReparsePointStreams(strms),
                                        zero_hash)]>>
              ELSE <<>>)
             \o <<[name |-> NO_STREAM_NAME,
                   hash |-> LastHash(strms, UnnamedStreams(strms, "DATA"),
                                     zero_hash)]>>
             \o [k \in DOMAIN named |->
                    [name |-> named[k].stream_name, hash |-> named[k].hash]]

\* The default_hash field as the hash of the unnamed data stream, whether
\* or not there are extra stream entries.
DefaultHashNotZeroed(inode) ==
    IF "ENCRYPTED" \in inode.i_attributes
    THEN LastHash(inode.i_streams, UnnamedStreams(inode.i_streams, "EFSRPC_RAW_DATA"),
                  zero_hash)
    ELSE LastHash(inode.i_streams, UnnamedStreams(inode.i_streams, "DATA"), zero_hash)

\* The default_hash field of the record; inode_get_unnamed_stream finds the
\* first unnamed stream of the type.
DefaultHash(inode) ==
    LET strms == inode.i_streams
        efs   == UnnamedStreams(strms, "EFSRPC_RAW_DATA")
    IN  IF "ENCRYPTED" \in inode.i_attributes
        THEN (IF efs = {} THEN zero_hash
              ELSE strms[CHOOSE i \in efs : \A j \in efs : i <= j].hash)
        ELSE IF ExtraStreamEntries(inode) # <<>> THEN zero_hash
        ELSE LastHash(strms, UnnamedStreams(strms, "DATA"), zero_hash)

\* write_dentry(dentry, p)
write_dentry(dentry, out) ==
    LET p == out.p
        inode == dentry.d_inode
        file_name_nbytes  == 2 * Len(dentry.file_name)
        short_name_nbytes == 2 * Len(dentry.short_name)
        names_end == Align8(p + dentry_min_len_with_names(file_name_nbytes,
                                                         short_name_nbytes))
        end == IF inode.i_extra_size # 0
               THEN Align8(names_end + inode.i_extra_size) ELSE names_end
        entries == IF "ENCRYPTED" \in inode.i_attributes THEN <<>>
                   ELSE ExtraStreamEntries(inode)
        disk_dentry ==
            [length            |-> end - p,
             attributes        |-> inode.i_attributes,
             security_id       |-> inode.i_security_id,
             subdir_offset     |-> dentry.subdir_offset,
             creation_time     |-> inode.i_creation_time,
             last_access_time  |-> inode.i_last_access_time,
             last_write_time   |-> inode.i_last_write_time,
             default_hash      |-> DefaultHash(inode),
             tail              |-> DiskTail(inode),
             num_extra_streams |-> Len(entries),
             short_name        |-> dentry.short_name,
             file_name         |-> dentry.file_name]
    IN  write_extra_stream_entries(
            [p |-> end, items |-> out.items @@ (p :> disk_dentry)], entries)

\* write_dentry on each dentry of the sequence in turn.
RECURSIVE write_dentries(_, _, _)
write_dentries(tree, children, out) ==
    IF children = <<>> THEN out
    ELSE write_dentries(tree, Tail(children),
                        write_dentry(tree[Head(children)], out))

\* *(u64*)p = 0; p += 8;
write_end_of_directory(out) ==
    [p |-> out.p + 8, items |-> out.items @@ (out.p :> END_OF_DIRECTORY)]

\* write_dir_dentries that writes nothing for a directory without children.
write_dir_dentries_of_nonempty(tree, dir, out) ==
    IF tree[dir].subdir_offset # 0 /\ for_dentry_child(tree, dir) # <<>>
    THEN write_end_of_directory(
             write_dentries(tree, for_dentry_child(tree, dir), out))
    ELSE out

\* write_dir_dentries(dir, &p): the children of the directory and the end of
\* directory entry.
write_dir_dentries(tree, dir, out) ==
    IF tree[dir].subdir_offset # 0
    THEN write_end_of_directory(
             write_dentries(tree, for_dentry_child(tree, dir), out))
    ELSE out

\* for_dentry_in_tree(root, write_dir_dentries, &p)
RECURSIVE write_dirs(_, _, _)
write_dirs(tree, todo_seq, out) ==
    IF todo_seq = <<>> THEN out
    ELSE write_dirs(tree, Tail(todo_seq),
                    write_dir_dentries(tree, Head(todo_seq), out))

\* write_dentry_tree(root, p): [p, items].
write_dentry_tree(tree, root, p) ==
    write_dirs(tree, PreOrder(tree, root),
               write_end_of_directory(
                   write_dentry(tree[root], [p |-> p, items |-> <<>>])))

\* assign_stream_types_encrypted: the first unnamed stream with a nonzero
\* hash, from stream i on.
RECURSIVE assign_stream_types_encrypted(_, _)
assign_stream_types_encrypted(strms, i) ==
    IF i > Len(strms) THEN strms
    ELSE IF ~stream_is_named(strms[i]) /\ strms[i].hash # zero_hash
    THEN [strms EXCEPT ![i].stream_type = "EFSRPC_RAW_DATA"]
    ELSE assign_stream_types_encrypted(strms, i + 1)

\* The loop of assign_stream_types_unencrypted from stream i on, and what
\* follows it.  zero is the index of unnamed_stream_with_zero_hash, 0 for NULL.
RECURSIVE assign_stream_types_unencrypted(_, _, _, _, _, _)
assign_stream_types_unencrypted(strms, i, attributes, found_reparse_point_stream, found_unnamed_data_stream, zero) ==
    IF i > Len(strms)
    THEN (IF ~found_unnamed_data_stream /\ zero # 0
          THEN [strms EXCEPT ![zero].stream_type = "DATA"] ELSE strms)
    ELSE IF stream_is_named(strms[i])
    THEN assign_stream_types_unencrypted(
             [strms EXCEPT ![i].stream_type = "DATA"], i + 1, attributes,
             found_reparse_point_stream, found_unnamed_data_stream, zero)
    ELSE IF strms[i].hash # zero_hash
    THEN (IF "REPARSE_POINT" \in attributes /\ ~found_reparse_point_stream
          THEN assign_stream_types_unencrypted(
                   [strms EXCEPT ![i].stream_type = "REPARSE_POINT"], i + 1,
                   attributes, TRUE, found_unnamed_data_stream, zero)
          ELSE IF ~found_unnamed_data_stream
          THEN assign_stream_types_unencrypted(
                   [strms EXCEPT ![i].stream_type = "DATA"], i + 1,
                   attributes, found_reparse_point_stream, TRUE, zero)
          ELSE assign_stream_types_unencrypted(
                   strms, i + 1, attributes, found_reparse_point_stream,
                   found_unnamed_data_stream, zero))
    ELSE assign_stream_types_unencrypted(
             strms, i + 1, attributes, found_reparse_point_stream,
             found_unnamed_data_stream, i)

\* The loop of setup_inode_streams over the extra stream entries:
\* [ret, strms, p].
RECURSIVE read_extra_stream_entries(_, _, _, _, _)
read_extra_stream_entries(buf, end, p, left, strms) ==
    IF left = 0 THEN [ret |-> WIMLIB_ERR_SUCCESS, strms |-> strms, p |-> p]
    ELSE IF end - p < WIM_EXTRA_STREAM_ENTRY_DISK_SIZE
    THEN [ret |-> WIMLIB_ERR_INVALID_METADATA_RESOURCE, strms |-> strms, p |-> p]
    ELSE LET disk_strm   == buf[p]
             length      == Align8(disk_strm.length)
             name_nbytes == 2 * Len(disk_strm.name)
             strm == [stream_name |-> disk_strm.name, hash |-> disk_strm.hash,
                      stream_type |-> "UNKNOWN"]
         IN  IF \/ u64_less(length, WIM_EXTRA_STREAM_ENTRY_DISK_SIZE)
                \/ u64_less(end - p, length)
                \/ /\ name_nbytes # 0
                   /\ u64_less(length,
                               WIM_EXTRA_STREAM_ENTRY_DISK_SIZE + name_nbytes)
             THEN [ret |-> WIMLIB_ERR_INVALID_METADATA_RESOURCE,
                   strms |-> strms, p |-> p]
             ELSE read_extra_stream_entries(buf, end, p + length, left - 1,
                                            Append(strms, strm))

\* The end of setup_inode_streams without the test for
\* FILE_ATTRIBUTE_ENCRYPTED.
assign_stream_types_as_unencrypted(attributes, extra) ==
    IF extra.ret # WIMLIB_ERR_SUCCESS THEN extra
    ELSE [extra EXCEPT !.strms =
             assign_stream_types_unencrypted(
                 extra.strms, 1, attributes, FALSE, FALSE, 0)]

\* The end of setup_inode_streams, extra being what its loop has arrived
\* at.
assign_stream_types(attributes, extra) ==
    IF extra.ret # WIMLIB_ERR_SUCCESS THEN extra
    ELSE [extra EXCEPT !.strms =
             IF "ENCRYPTED" \in attributes
             THEN assign_stream_types_encrypted(extra.strms, 1)
             ELSE assign_stream_types_unencrypted(
                      extra.strms, 1, attributes, FALSE, FALSE, 0)]

\* setup_inode_streams: [ret, strms, p]; a stream's id is its index less one.
setup_inode_streams(buf, end, p, attributes, num_extra_streams, default_hash) ==
    assign_stream_types(
        attributes,
        read_extra_stream_entries(
            buf, end, p, num_extra_streams,
            <<[stream_name |-> NO_STREAM_NAME, hash |-> default_hash,
               stream_type |-> "UNKNOWN"]>>))

NO_DENTRY == [file_name |-> <<>>, no_dentry |-> TRUE]

\* The end of read_dentry: the dentry and the inode of a record whose
\* streams setup_inode_streams has read.
read_dentry_end(disk_dentry, offset, length, calculated_size, streams) ==
    LET extra_at == Align8(offset + calculated_size)
        reparse == "REPARSE_POINT" \in disk_dentry.attributes
        inode ==
            [i_attributes       |-> disk_dentry.attributes,
             i_security_id      |-> disk_dentry.security_id,
             i_creation_time    |-> disk_dentry.creation_time,
             i_last_access_time |-> disk_dentry.last_access_time,
             i_last_write_time  |-> disk_dentry.last_write_time,
             i_reparse_tag |-> IF reparse THEN disk_dentry.tail.reparse_tag
                               ELSE 0,
             i_ino |-> IF reparse THEN 0
                       ELSE disk_dentry.tail.hard_link_group_id,
             i_nlink |-> 1,
             i_extra_size |-> IF extra_at < offset + length
                              THEN offset + length - extra_at
                              ELSE 0,
             i_streams |-> streams.strms]
    IN  IF streams.ret # WIMLIB_ERR_SUCCESS
        THEN [ret |-> WIMLIB_ERR_INVALID_METADATA_RESOURCE,
              dentry |-> NO_DENTRY, offset |-> offset]
        ELSE [ret |-> WIMLIB_ERR_SUCCESS,
              dentry |-> [file_name |-> disk_dentry.file_name,
                          short_name |-> disk_dentry.short_name,
                          subdir_offset |-> disk_dentry.subdir_offset,
                          d_inode |-> inode],
              offset |-> streams.p]

\* read_dentry(buf, buf_len, &offset, &dentry): [ret, dentry, offset], the
\* dentry being NO_DENTRY for NULL.
read_dentry(buf, len, offset) ==
    LET invalid == [ret |-> WIMLIB_ERR_INVALID_METADATA_RESOURCE,
                    dentry |-> NO_DENTRY, offset |-> offset]
    IN  IF u64_less(len, offset + 8) \/ u64_less(offset + 8, offset)
        THEN invalid
        ELSE LET disk_dentry == buf[offset]
                 length == Align8(disk_dentry.length)
                 calculated_size ==
                     dentry_min_len_with_names(2 * Len(disk_dentry.file_name),
                                               2 * Len(disk_dentry.short_name))
             IN  IF ~u64_less(8, length)
                 THEN [ret |-> WIMLIB_ERR_SUCCESS, dentry |-> NO_DENTRY,
                       offset |-> offset]
                 ELSE IF u64_less(length, WIM_DENTRY_DISK_SIZE) THEN invalid
                 ELSE IF \/ u64_less(len, offset + length)
                         \/ u64_less(offset + length, offset)
                 THEN invalid
                 ELSE IF u64_less(length, calculated_size) THEN invalid
                 ELSE read_dentry_end(
                          disk_dentry, offset, length, calculated_size,
                          setup_inode_streams(
                              buf, len, offset + length,
                              disk_dentry.attributes,
                              disk_dentry.num_extra_streams,
                              disk_dentry.default_hash))

\* A dentry the parser has made carries its path from the root, the
\* sequence of the long names down to it, in place of its d_parent: the root
\* is the dentry with the empty path.
ReadDentry(path, dentry) ==
    [path |-> path, file_name |-> dentry.file_name,
     short_name |-> dentry.short_name,
     subdir_offset |-> dentry.subdir_offset, d_inode |-> dentry.d_inode]

\* A test for the name "." alone.
dentry_is_dot(dentry) == dentry.file_name = <<".">>

dentry_is_dot_or_dotdot(dentry) ==
    dentry.file_name = <<".">> \/ dentry.file_name = <<".", ".">>

\* The test of the nearest parent alone.
CyclicDirectoryStructureOfParent(parents, cur_offset) ==
    IF parents = <<>> \/ Head(parents).path = <<>> THEN FALSE
    ELSE Head(parents).subdir_offset = cur_offset

\* The for loop that looks for a cyclic directory structure; parents are
\* the dentries from dir->d_parent up to the root, the nearest first.
RECURSIVE CyclicDirectoryStructure(_, _)
CyclicDirectoryStructure(parents, cur_offset) ==
    IF parents = <<>> \/ Head(parents).path = <<>> THEN FALSE
    ELSE \/ Head(parents).subdir_offset = cur_offset
         \/ CyclicDirectoryStructure(Tail(parents), cur_offset)

\* read_dentry_tree_recursive(buf, buf_len, dir): [ret, linked], linked
\* being the dentries linked below dir.  read_children is its for (;;) loop
\* from cur_offset on, read_child the body of the loop once read_dentry has
\* returned r, and read_subdir the end of the body once the recursion into
\* the child has returned sub.
RECURSIVE read_dentry_tree_recursive(_, _, _, _)
RECURSIVE read_children(_, _, _, _, _, _)
RECURSIVE read_child(_, _, _, _, _, _)
RECURSIVE read_subdir(_, _, _, _, _, _, _)
read_subdir(buf, len, dir, parents, cur_offset, linked, sub) ==
    IF sub.ret # WIMLIB_ERR_SUCCESS
    THEN [ret |-> sub.ret, linked |-> linked \cup sub.linked]
    ELSE read_children(buf, len, dir, parents, cur_offset,
                       linked \cup sub.linked)

read_child(buf, len, dir, parents, linked, r) ==
    LET child == ReadDentry(Append(dir.path, r.dentry.file_name), r.dentry)
        duplicate == \E e \in linked : e.path = child.path
    IN  IF r.ret # WIMLIB_ERR_SUCCESS THEN [ret |-> r.ret, linked |-> linked]
        ELSE IF r.dentry = NO_DENTRY
        THEN [ret |-> WIMLIB_ERR_SUCCESS, linked |-> linked]
        ELSE IF \/ r.dentry.file_name = <<>>
                \/ dentry_is_dot_or_dotdot(r.dentry)
                \/ duplicate
        THEN read_children(buf, len, dir, parents, r.offset, linked)
        ELSE IF child.subdir_offset # 0 /\ inode_is_directory(child.d_inode)
        THEN read_subdir(buf, len, dir, parents, r.offset,
                         linked \cup {child},
                         read_dentry_tree_recursive(buf, len, child,
                                                    <<dir>> \o parents))
        ELSE read_children(buf, len, dir, parents, r.offset,
                           linked \cup {child})

read_children(buf, len, dir, parents, cur_offset, linked) ==
    read_child(buf, len, dir, parents, linked,
               read_dentry(buf, len, cur_offset))

read_dentry_tree_recursive(buf, len, dir, parents) ==
    IF CyclicDirectoryStructure(parents, dir.subdir_offset)
    THEN [ret |-> WIMLIB_ERR_INVALID_METADATA_RESOURCE, linked |-> {}]
    ELSE read_children(buf, len, dir, parents, dir.subdir_offset, {})

\* A read_root_children that hands out what it has built when the
\* recursion fails.
read_root_children_keeps_tree(old_root, root, below) ==
    [ret |-> below.ret, root_ret |-> {root} \cup below.linked]

\* The end of read_dentry_tree, below being what read_dentry_tree_recursive
\* has returned for the root: on an error the tree is freed and *root_ret is
\* left alone.
read_root_children(old_root, root, below) ==
    IF below.ret # WIMLIB_ERR_SUCCESS
    THEN [ret |-> below.ret, root_ret |-> old_root]
    ELSE [ret |-> WIMLIB_ERR_SUCCESS, root_ret |-> {root} \cup below.linked]

\* read_dentry_tree once read_dentry has returned r for the root.
read_root(buf, len, old_root, r) ==
    LET root == ReadDentry(<<>>, [r.dentry EXCEPT !.file_name = <<>>,
                                                   !.short_name = <<>>])
    IN  IF r.ret # WIMLIB_ERR_SUCCESS THEN [ret |-> r.ret, root_ret |-> old_root]
        ELSE IF r.dentry = NO_DENTRY
        THEN [ret |-> WIMLIB_ERR_SUCCESS, root_ret |-> {}]
        ELSE IF ~inode_is_directory(root.d_inode)
        THEN [ret |-> WIMLIB_ERR_INVALID_METADATA_RESOURCE, root_ret |-> old_root]
        ELSE IF root.subdir_offset = 0
        THEN [ret |-> WIMLIB_ERR_SUCCESS, root_ret |-> {root}]
        ELSE read_root_children(
                 old_root, root,
                 read_dentry_tree_recursive(buf, len, root, <<>>))

\* read_dentry_tree(buf, buf_len, root_offset, &root): [ret, root_ret], the
\* tree being the set of its dentries, empty for NULL.  *root_ret is
\* written on success only.
read_dentry_tree(buf, len, offset, old_root) ==
    read_root(buf, len, old_root, read_dentry(buf, len, offset))

(***************************************************************************)
(* The trees handed to the writer and the buffers handed to the parser.     *)
(***************************************************************************)
\* The root dentry follows the security data, empty here.
SecurityDataLength == 8

Stream(name, hash, type) ==
    [stream_name |-> name, hash |-> hash, stream_type |-> type]

\* An inode of one link with the given attributes, streams and bytes of
\* tagged items.
Inode(attributes, strms, extra_size) ==
    [i_attributes       |-> attributes,
     i_security_id      |-> IF strms = <<>> THEN -1 ELSE 7,
     i_creation_time    |-> 11,
     i_last_access_time |-> 12,
     i_last_write_time  |-> 13,
     i_reparse_tag |-> IF "REPARSE_POINT" \in attributes THEN 9 ELSE 0,
     i_ino         |-> 0,
     i_nlink       |-> 1,
     i_extra_size  |-> extra_size,
     i_streams     |-> strms]

\* The inodes of the trees: directories, files with and without data and
\* named data streams, reparse points, an encrypted file.
Inodes ==
    { Inode({"DIRECTORY"}, <<>>, 0),
      Inode({"DIRECTORY", "REPARSE_POINT"},
            <<Stream(NO_STREAM_NAME, 1, "REPARSE_POINT")>>, 0),
      Inode({}, <<Stream(NO_STREAM_NAME, 1, "DATA")>>, 0),
      Inode({}, <<Stream(NO_STREAM_NAME, zero_hash, "DATA")>>, 8),
      Inode({}, <<Stream(<<"a">>, 2, "DATA"),
                  Stream(NO_STREAM_NAME, 1, "DATA"),
                  Stream(<<"b", "b", "b", "b">>, zero_hash, "DATA")>>, 0),
      Inode({}, <<Stream(<<"b">>, 2, "DATA")>>, 0),
      Inode({"REPARSE_POINT"},
            <<Stream(NO_STREAM_NAME, 1, "REPARSE_POINT")>>, 0),
      Inode({"REPARSE_POINT"},
            <<Stream(NO_STREAM_NAME, 2, "DATA"),
              Stream(NO_STREAM_NAME, 1, "REPARSE_POINT"),
              Stream(<<"a">>, 3, "DATA")>>, 0),
      Inode({"REPARSE_POINT"},
            <<Stream(NO_STREAM_NAME, zero_hash, "REPARSE_POINT"),
              Stream(NO_STREAM_NAME, 2, "DATA")>>, 0),
      Inode({"REPARSE_POINT"}, <<Stream(NO_STREAM_NAME, 2, "DATA")>>, 0),
      Inode({"ENCRYPTED"},
            <<Stream(NO_STREAM_NAME, 3, "EFSRPC_RAW_DATA")>>, 0) }

\* The long and short names of the dentries of the trees.
DentryNames ==
    { [file_name |-> <<"a">>, short_name |-> <<>>],
      [file_name |-> <<"a", "b">>, short_name |-> <<"a", "b">>],
      [file_name |-> <<".">>, short_name |-> <<>>] }

\* A tree of up to MaxNodes dentries below the root: the parent of a dentry
\* is a directory, no two children of a directory have the same long name.
InitRoundTrip ==
    /\ HuffIdle /\ X86Idle /\ SlotIdle /\ TreeIdle /\ WinIdle /\ LruIdle /\ WalkIdle /\ ScanIdle
    /\ mpc = "tree"
    /\ \E n \in 0..MaxNodes :
           \E par \in [1..n -> 0..MaxNodes], nm \in [1..n -> DentryNames],
              ino \in [1..n -> Inodes] :
               /\ \A d \in 1..n :
                      /\ par[d] < d
                      /\ IF par[d] = 0 THEN TRUE
                         ELSE inode_is_directory(ino[par[d]])
               /\ \A d, e \in 1..n :
                      (d # e /\ par[d] = par[e])
                          => nm[d].file_name # nm[e].file_name
               /\ in_tree =
                      [d \in 0..n |->
                          IF d = 0
                          THEN [d_parent |-> 0, file_name |-> <<>>,
                                short_name |-> <<>>, subdir_offset |-> 0,
                                d_inode |-> Inode({"DIRECTORY"}, <<>>, 0)]
                          ELSE [d_parent |-> par[d],
                                file_name |-> nm[d].file_name,
                                short_name |-> nm[d].short_name,
                                subdir_offset |-> 0, d_inode |-> ino[d]]]
    /\ root_offset = SecurityDataLength
    /\ subdir_end = 0 /\ write_end = 0 /\ mbuf = <<>> /\ buf_len = 0
    /\ read_ret = "none" /\ root_ret = {}

\* The caller of calculate_subdir_offsets: the first list of children
\* follows the root and its end of directory entry.
CalculateSubdirOffsets ==
    /\ mpc = "tree"
    /\ \E done \in {calculate_subdir_offsets(
                          in_tree, 0,
                          root_offset + dentry_out_total_length(in_tree[0]) + 8)} :
           /\ in_tree' = done.tree
           /\ subdir_end' = done.subdir_offset
    /\ mpc' = "offsets"
    /\ UNCHANGED <<root_offset, write_end, mbuf, buf_len, read_ret, root_ret>>
    /\ UNCHANGED <<huffVars, x86Vars, slotVars, treeVars, winVars, lruVars, walkVars, scanVars>>

\* write_dentry_tree into a buffer of the size calculate_subdir_offsets
\* arrived at.
WriteDentryTree ==
    /\ mpc = "offsets"
    /\ \E written \in {write_dentry_tree(in_tree, 0, root_offset)} :
           /\ mbuf' = written.items
           /\ write_end' = written.p
    /\ buf_len' = subdir_end
    /\ mpc' = "written"
    /\ UNCHANGED <<in_tree, root_offset, subdir_end, read_ret, root_ret>>
    /\ UNCHANGED <<huffVars, x86Vars, slotVars, treeVars, winVars, lruVars, walkVars, scanVars>>

ReadDentryTree ==
    /\ mpc \in {"written", "buffer"}
    /\ \E read \in {read_dentry_tree(mbuf, buf_len, root_offset, root_ret)} :
           /\ read_ret' = read.ret
           /\ root_ret' = read.root_ret
    /\ mpc' = "read"
    /\ UNCHANGED <<in_tree, root_offset, subdir_end, write_end, mbuf, buf_len>>
    /\ UNCHANGED <<huffVars, x86Vars, slotVars, treeVars, winVars, lruVars, walkVars, scanVars>>

NextRoundTrip ==
    \/ CalculateSubdirOffsets
    \/ WriteDentryTree
    \/ ReadDentryTree

SpecRoundTrip == InitRoundTrip /\ [][NextRoundTrip]_vars

\* The streams of the inodes that are written: unnamed or named a or b,
\* with the zero hash or one of two others, of any type if unnamed and
\* DATA if named.
WriteStreams ==
    {Stream(NO_STREAM_NAME, hash, type) :
        hash \in {zero_hash, 1, 2},
        type \in {"DATA", "REPARSE_POINT", "EFSRPC_RAW_DATA", "UNKNOWN"}}
    \cup {Stream(name, hash, "DATA") :
            name \in {<<"a">>, <<"b">>}, hash \in {zero_hash, 1, 2}}

\* An inode has at most one reparse point stream, one unnamed data stream
\* and one EFSRPC stream, and no two streams of the same type and name.
StreamsAreUnique(strms) ==
    \A i, j \in DOMAIN strms :
        (/\ i # j
         /\ strms[i].stream_type = strms[j].stream_type
         /\ strms[i].stream_name = strms[j].stream_name)
            => strms[i].stream_type = "UNKNOWN"

\* A root with one file a, whose inode has any of the attributes
\* REPARSE_POINT and ENCRYPTED and up to MaxExtraStreams streams.
InitWrite ==
    /\ HuffIdle /\ X86Idle /\ SlotIdle /\ TreeIdle /\ WinIdle /\ LruIdle /\ WalkIdle /\ ScanIdle
    /\ mpc = "tree"
    /\ \E n \in 0..MaxExtraStreams :
        \E strms \in [1..n -> WriteStreams],
           attributes \in SUBSET {"REPARSE_POINT", "ENCRYPTED"} :
            /\ StreamsAreUnique(strms)
            /\ in_tree =
                   [d \in 0..1 |->
                       IF d = 0
                       THEN [d_parent |-> 0, file_name |-> <<>>,
                             short_name |-> <<>>, subdir_offset |-> 0,
                             d_inode |-> Inode({"DIRECTORY"}, <<>>, 0)]
                       ELSE [d_parent |-> 0, file_name |-> <<"a">>,
                             short_name |-> <<>>, subdir_offset |-> 0,
                             d_inode |-> Inode(attributes, strms, 0)]]
    /\ root_offset = SecurityDataLength
    /\ subdir_end = 0 /\ write_end = 0 /\ mbuf = <<>> /\ buf_len = 0
    /\ read_ret = "none" /\ root_ret = {}

NextWrite == CalculateSubdirOffsets \/ WriteDentryTree

SpecWrite == InitWrite /\ [][NextWrite]_vars

\* A buffer of records of one size: the root, then MaxSlots records or ends
\* of directory.  A record names a file or a directory; its subdir_offset
\* is 0 or the offset of one of the records.
SlotSize == Align8(dentry_min_len_with_names(2, 0))
SlotAt(s) == SecurityDataLength + s * SlotSize
SlotOffsets == {SlotAt(s) : s \in 1..MaxSlots}
SlotNames == {<<"a">>, <<".">>}

SlotDentry(name, attributes, subdir_offset) ==
    [length            |-> SlotSize,
     attributes        |-> attributes,
     security_id       |-> -1,
     subdir_offset     |-> subdir_offset,
     creation_time     |-> 11,
     last_access_time  |-> 12,
     last_write_time   |-> 13,
     default_hash      |-> zero_hash,
     tail              |-> [hard_link_group_id |-> 0],
     num_extra_streams |-> 0,
     short_name        |-> <<>>,
     file_name         |-> name]

SlotItems ==
    {END_OF_DIRECTORY}
        \cup {SlotDentry(name, {"DIRECTORY"}, sub) :
                  name \in SlotNames, sub \in {0} \cup SlotOffsets}
        \cup {SlotDentry(name, {}, sub) :
                  name \in SlotNames, sub \in {0, SlotAt(1)}}

InitParse ==
    /\ HuffIdle /\ X86Idle /\ SlotIdle /\ TreeIdle /\ WinIdle /\ LruIdle /\ WalkIdle /\ ScanIdle
    /\ mpc = "buffer"
    /\ in_tree = <<>> /\ subdir_end = 0 /\ write_end = 0
    /\ root_offset = SecurityDataLength
    /\ \E sub \in SlotOffsets, items \in [1..MaxSlots -> SlotItems] :
           mbuf = [o \in {SlotAt(s) : s \in 0..MaxSlots} |->
                      IF o = SlotAt(0) THEN SlotDentry(<<>>, {"DIRECTORY"}, sub)
                      ELSE items[(o - SecurityDataLength) \div SlotSize]]
    /\ buf_len = SlotAt(MaxSlots + 1)
    /\ read_ret = "none" /\ root_ret = {}

NextParse == ReadDentryTree

\* The length fields of the records: the size of a slot, lengths that are
\* too small or overrun the buffer, and lengths near 2^64.
LengthFields ==
    {SlotSize, SlotSize - 7, 9, WIM_DENTRY_DISK_SIZE, 2 * SlotSize + 1,
     -1, -7, -8, -9, -SlotSize}

\* A buffer of a root and two records below it, with any of the length
\* fields.
InitLength ==
    /\ HuffIdle /\ X86Idle /\ SlotIdle /\ TreeIdle /\ WinIdle /\ LruIdle /\ WalkIdle /\ ScanIdle
    /\ mpc = "buffer"
    /\ in_tree = <<>> /\ subdir_end = 0 /\ write_end = 0
    /\ root_offset = SecurityDataLength
    /\ \E root_length \in LengthFields, sub \in {0, SlotAt(1), SlotAt(2)},
          lengths \in [1..2 -> LengthFields \cup {0}],
          attributes \in [1..2 -> {{}, {"DIRECTORY"}}] :
           mbuf = [o \in {SlotAt(s) : s \in 0..2} |->
                      IF o = SlotAt(0)
                      THEN [SlotDentry(<<>>, {"DIRECTORY"}, sub)
                               EXCEPT !.length = root_length]
                      ELSE [SlotDentry(
                                <<"a">>,
                                attributes[(o - SecurityDataLength) \div SlotSize],
                                0)
                               EXCEPT !.length =
                                   lengths[(o - SecurityDataLength) \div SlotSize]]]
    /\ buf_len = SlotAt(3)
    /\ read_ret = "none" /\ root_ret = {}

NextLength == ReadDentryTree

\* A buffer of a root, named or not, and four records below it, the last
\* of which may be the list of children of another: every record is
\* unnamed or named a, b, "." or "..", and names a file or a directory.
SiblingNames == {<<>>, <<"a">>, <<"b">>, <<".">>, <<".", ".">>}

SiblingItems ==
    {END_OF_DIRECTORY}
        \cup {SlotDentry(name, attributes, 0) :
                  name \in SiblingNames, attributes \in {{}, {"DIRECTORY"}}}
        \cup {SlotDentry(name, {"DIRECTORY"}, SlotAt(4)) :
                  name \in {<<"a">>, <<"b">>}}

InitSiblings ==
    /\ HuffIdle /\ X86Idle /\ SlotIdle /\ TreeIdle /\ WinIdle /\ LruIdle /\ WalkIdle /\ ScanIdle
    /\ mpc = "buffer"
    /\ in_tree = <<>> /\ subdir_end = 0 /\ write_end = 0
    /\ root_offset = SecurityDataLength
    /\ \E root_name \in {<<>>, <<"a">>}, items \in [1..4 -> SiblingItems] :
           mbuf = [o \in {SlotAt(s) : s \in 0..4} |->
                      IF o = SlotAt(0)
                      THEN [SlotDentry(root_name, {"DIRECTORY"}, SlotAt(1))
                               EXCEPT !.short_name = root_name]
                      ELSE items[(o - SecurityDataLength) \div SlotSize]]
    /\ buf_len = SlotAt(5)
    /\ read_ret = "none" /\ root_ret = {}

NextSiblings == ReadDentryTree

SpecSiblings == InitSiblings /\ [][NextSiblings]_vars

\* A buffer of a root and one file a below it, whose record has any
\* default hash, any of the attributes REPARSE_POINT and ENCRYPTED and up to
\* MaxExtraStreams extra stream entries, each unnamed or named a and with
\* the zero hash or one of two others; the end of the directory follows the
\* entries.
StreamHashes == {zero_hash, 1, 2}
StreamEntrySize == Align8(WIM_EXTRA_STREAM_ENTRY_DISK_SIZE + 2)
StreamEntryAt(k) == SlotAt(2) + (k - 1) * StreamEntrySize

StreamEntries ==
    {[length |-> WIM_EXTRA_STREAM_ENTRY_DISK_SIZE + 2 * Len(name), hash |-> hash,
      name |-> name] : name \in {NO_STREAM_NAME, <<"a">>}, hash \in StreamHashes}

InitStreams ==
    /\ HuffIdle /\ X86Idle /\ SlotIdle /\ TreeIdle /\ WinIdle /\ LruIdle /\ WalkIdle /\ ScanIdle
    /\ mpc = "buffer"
    /\ in_tree = <<>> /\ subdir_end = 0 /\ write_end = 0
    /\ root_offset = SecurityDataLength
    /\ \E n \in 0..MaxExtraStreams :
        \E entries \in [1..n -> StreamEntries], default_hash \in StreamHashes,
           attributes \in SUBSET {"REPARSE_POINT", "ENCRYPTED"} :
           /\ mbuf = [o \in {SlotAt(0), SlotAt(1)}
                             \cup {StreamEntryAt(k) : k \in 1..(n + 1)} |->
                      IF o = SlotAt(0) THEN SlotDentry(<<>>, {"DIRECTORY"}, SlotAt(1))
                      ELSE IF o = SlotAt(1)
                      THEN [SlotDentry(<<"a">>, attributes, 0)
                               EXCEPT !.default_hash = default_hash,
                                      !.num_extra_streams = n,
                                      !.tail = IF "REPARSE_POINT" \in attributes
                                               THEN [reparse_tag |-> 9]
                                               ELSE [hard_link_group_id |-> 0]]
                      ELSE IF o = StreamEntryAt(n + 1) THEN END_OF_DIRECTORY
                      ELSE entries[1 + (o - SlotAt(2)) \div StreamEntrySize]]
           /\ buf_len = StreamEntryAt(n + 1) + 8
    /\ read_ret = "none" /\ root_ret = {}

NextStreams == ReadDentryTree

SpecStreams == InitStreams /\ [][NextStreams]_vars

SpecLength == InitLength /\ [][NextLength]_vars

SpecParse == InitParse /\ [][NextParse]_vars

(***************************************************************************)
(* Properties of the dentry codec.                                          *)
(***************************************************************************)
\* The hashes of the typed streams of an inode, an absent stream read as
\* one with the zero hash, and its named data streams in their order.
TypedStreams(inode) ==
    LET strms == inode.i_streams
        named == SelectSeq(strms, stream_is_named_data_stream)
    IN  [reparse |-> LastHash(strms, ReparsePointStreams(strms), zero_hash),
         unnamed |-> LastHash(strms, UnnamedStreams(strms, "DATA"), zero_hash),
         efsrpc  |-> LastHash(strms, UnnamedStreams(strms, "EFSRPC_RAW_DATA"),
                              zero_hash),
         named   |-> [k \in DOMAIN named |->
                         [name |-> named[k].stream_name, hash |-> named[k].hash]]]

\* What the round trip is to keep of a dentry.
Kept(path, dentry) ==
    [path             |-> path,
     short_name       |-> dentry.short_name,
     attributes       |-> dentry.d_inode.i_attributes,
     security_id      |-> dentry.d_inode.i_security_id,
     creation_time    |-> dentry.d_inode.i_creation_time,
     last_access_time |-> dentry.d_inode.i_last_access_time,
     last_write_time  |-> dentry.d_inode.i_last_write_time,
     streams          |-> TypedStreams(dentry.d_inode)]

RECURSIVE PathIn(_, _)
PathIn(tree, d) ==
    IF tree[d].d_parent = d THEN <<>>
    ELSE Append(PathIn(tree, tree[d].d_parent), tree[d].file_name)

TreeWritten == {Kept(PathIn(in_tree, d), in_tree[d]) : d \in DOMAIN in_tree}
TreeRead == {Kept(e.path, e) : e \in root_ret}

\* C8 as stated, for the trees that hold no dentry named "." or "..":
\* whatever the inodes, those with the reparse attribute and streams with
\* the zero hash included, reading the written buffer succeeds and yields
\* the same directory structure, names, attributes, security ids,
\* timestamps and typed streams.
C8_RoundTrip ==
    (mpc = "read" /\ \A d \in DOMAIN in_tree : ~dentry_is_dot_or_dotdot(in_tree[d]))
        => /\ read_ret = WIMLIB_ERR_SUCCESS
           /\ TreeRead = TreeWritten

\* The trees without a dentry named "." or "..", and without an inode that
\* has the reparse attribute and an unnamed data stream with a nonzero hash
\* but no reparse point stream with a nonzero hash.
ReadableBack(tree) ==
    \A d \in DOMAIN tree :
        /\ ~dentry_is_dot_or_dotdot(tree[d])
        /\ "REPARSE_POINT" \in tree[d].d_inode.i_attributes
               => \/ TypedStreams(tree[d].d_inode).reparse # zero_hash
                  \/ TypedStreams(tree[d].d_inode).unnamed = zero_hash

\* C8, amended: the round trip of such a tree succeeds and keeps all of the
\* above.
C8_RoundTripReadableBack ==
    (mpc = "read" /\ ReadableBack(in_tree)) =>
        /\ read_ret = WIMLIB_ERR_SUCCESS
        /\ TreeRead = TreeWritten

\* A reparse point with three streams, in a subdirectory, was written and
\* read back as it was, beside a stream with the zero hash.
C8_Witness ==
    /\ mpc = "read" /\ read_ret = WIMLIB_ERR_SUCCESS
    /\ ReadableBack(in_tree)
    /\ TreeRead = TreeWritten
    /\ \E d \in DOMAIN in_tree :
           /\ in_tree[d].d_parent # 0
           /\ "REPARSE_POINT" \in in_tree[d].d_inode.i_attributes
           /\ Len(in_tree[d].d_inode.i_streams) = 3
    /\ \E e \in root_ret :
           \E i \in DOMAIN e.d_inode.i_streams :
               /\ e.d_inode.i_streams[i].stream_type = "DATA"
               /\ e.d_inode.i_streams[i].hash = zero_hash

\* The records a scan of the list of siblings at the offset keeps: those
\* with a name other than "." and "..", the first of each name.
RECURSIVE SiblingsFrom(_, _, _, _)
SiblingsFrom(buf, len, offset, kept) ==
    LET r == read_dentry(buf, len, offset)
    IN  IF r.ret # WIMLIB_ERR_SUCCESS \/ r.dentry = NO_DENTRY THEN kept
        ELSE IF \/ r.dentry.file_name = <<>>
                \/ dentry_is_dot_or_dotdot(r.dentry)
                \/ \E e \in kept : e.file_name = r.dentry.file_name
        THEN SiblingsFrom(buf, len, r.offset, kept)
        ELSE SiblingsFrom(buf, len, r.offset, kept \cup {r.dentry})

\* Below a directory whose children lie at subdir_offset, under ancestors
\* whose children lie at the offsets above, some directory has the
\* subdir_offset of one of its ancestors.
RECURSIVE RepeatsBelow(_, _, _, _)
RepeatsBelow(buf, len, subdir_offset, above) ==
    \/ subdir_offset \in above
    \/ \E c \in SiblingsFrom(buf, len, subdir_offset, {}) :
           /\ inode_is_directory(c.d_inode)
           /\ c.subdir_offset # 0
           /\ RepeatsBelow(buf, len, c.subdir_offset,
                           above \cup {subdir_offset})

\* The root of the buffer, if it has one that is a directory with children.
RootRecord ==
    LET r == read_dentry(mbuf, buf_len, root_offset)
    IN  IF /\ r.ret = WIMLIB_ERR_SUCCESS
           /\ r.dentry # NO_DENTRY
           /\ inode_is_directory(r.dentry.d_inode)
           /\ r.dentry.subdir_offset # 0
        THEN {r.dentry} ELSE {}

\* C9: when some directory of the buffer has the subdir_offset of one of its
\* ancestors, the root among them, read_dentry_tree returns
\* WIMLIB_ERR_INVALID_METADATA_RESOURCE and hands no tree to its caller.
C9_CyclesAreRejected ==
    (/\ mpc = "read"
     /\ \E root \in RootRecord :
            RepeatsBelow(mbuf, buf_len, root.subdir_offset, {}))
        => /\ read_ret = WIMLIB_ERR_INVALID_METADATA_RESOURCE
           /\ root_ret = {}

\* A child of the root had the subdir_offset of the root, the one ancestor
\* the for loop does not look at, and the buffer was rejected.
C9_Witness ==
    /\ mpc = "read"
    /\ read_ret = WIMLIB_ERR_INVALID_METADATA_RESOURCE
    /\ root_ret = {}
    /\ \E root \in RootRecord :
           \E c \in SiblingsFrom(mbuf, buf_len, root.subdir_offset, {}) :
               /\ inode_is_directory(c.d_inode)
               /\ c.subdir_offset = root.subdir_offset

\* The record at the offset has a length field L greater than 8 for which
\* the offset plus L rounded up to a multiple of 8 is beyond the end of the
\* buffer, in unbounded arithmetic.
Overruns(o) ==
    LET L == mbuf[o].length
    IN  \/ L < 0
        \/ L > 8 /\ o + Align8(L) > buf_len

\* The offsets of the records read_dentry is called for first: the root
\* and, if the root is a record of the size of a slot, the first record of
\* its list of children.
RecordsRead ==
    {root_offset}
        \cup (IF /\ mbuf[root_offset].length = SlotSize
                 /\ mbuf[root_offset].subdir_offset # 0
              THEN {mbuf[root_offset].subdir_offset} ELSE {})

\* C14: read_dentry_tree fails with WIMLIB_ERR_INVALID_METADATA_RESOURCE
\* for every record it reads whose length field is greater than 8 and
\* overruns the buffer, 64-bit wraparound notwithstanding.
C14_OverrunIsRejected ==
    mpc = "read" =>
        \A o \in RecordsRead :
            Overruns(o) => read_ret = WIMLIB_ERR_INVALID_METADATA_RESOURCE

\* The same for the length fields below 2^64 - 7, which the rounding
\* does not wrap: here the overrun is rejected.
OverrunWithoutRoundingWrapIsRejected ==
    mpc = "read" =>
        \A o \in RecordsRead :
            (Overruns(o) /\ ~(mbuf[o].length \in -7..-1))
                => read_ret = WIMLIB_ERR_INVALID_METADATA_RESOURCE

\* The dentries of the tree that are the children of the dentry.
ChildrenRead(e) ==
    {f \in root_ret : /\ Len(f.path) = Len(e.path) + 1
                      /\ SubSeq(f.path, 1, Len(e.path)) = e.path}

\* C15: when read_dentry_tree succeeds, every dentry but the root has a
\* long name other than "." and "..", the root has no name, no directory
\* has two children of one name, and the children of a directory are the
\* records of its list that are named, not "." or "..", and the first of
\* their name: the records dropped end neither the parse nor the scan, and
\* a buffer whose last record is an end of directory, so that every list in
\* it ends, is read with success.
C15_DroppedRecords ==
    /\ (mpc = "read" /\ mbuf[SlotAt(4)] = END_OF_DIRECTORY)
           => read_ret = WIMLIB_ERR_SUCCESS
    /\ (mpc = "read" /\ read_ret = WIMLIB_ERR_SUCCESS) =>
        /\ \A e \in root_ret :
               IF e.path = <<>>
               THEN e.file_name = <<>> /\ e.short_name = <<>>
               ELSE /\ e.file_name \notin {<<>>, <<".">>, <<".", ".">>}
                    /\ e.file_name = e.path[Len(e.path)]
        /\ \A e, f \in root_ret : e.path = f.path => e = f
        /\ \A e \in root_ret :
               ChildrenRead(e) =
                   IF inode_is_directory(e.d_inode) /\ e.subdir_offset # 0
                   THEN {ReadDentry(Append(e.path, d.file_name), d) :
                            d \in SiblingsFrom(mbuf, buf_len, e.subdir_offset, {})}
                   ELSE {}

\* A named root was read with a list of a file a, a directory a and a
\* record named "..": the tree is the root and the file a.
C15_Witness ==
    /\ mpc = "read" /\ read_ret = WIMLIB_ERR_SUCCESS
    /\ mbuf[root_offset].file_name = <<"a">>
    /\ mbuf[SlotAt(1)] = SlotDentry(<<"a">>, {}, 0)
    /\ mbuf[SlotAt(2)] = SlotDentry(<<"a">>, {"DIRECTORY"}, 0)
    /\ mbuf[SlotAt(3)] = SlotDentry(<<".", ".">>, {}, 0)
    /\ mbuf[SlotAt(4)] = END_OF_DIRECTORY
    /\ Cardinality(root_ret) = 2
    /\ \E e \in root_ret :
           e.path = <<<<"a">>>> /\ e.d_inode.i_attributes = {}

(***************************************************************************)
(* xml_windows.c: set_windows_specific_info                                 *)
(*                                                                          *)
(* The children of the root are held in the order for_dentry_child visits   *)
(* them, each with what the case-insensitive lookups below it find.  The    *)
(* collaborators of the harvest (property setter, hive queries, blob        *)
(* reader, name conversion) report what win_env says; ctx is                *)
(* [oom_encountered, calls], calls being the reports made so far.           *)
(***************************************************************************)
WIMLIB_ERR_NOMEM == "NOMEM"

\* upcase[] on the names of the top-level directories.
UpcaseName(name) == IF name = "Windows" THEN "WINDOWS" ELSE name

\* is_default_systemroot: the name is "Windows", ignoring case.
is_default_systemroot(potential_systemroot) ==
    UpcaseName(potential_systemroot.d_name) = UpcaseName("Windows")

\* score >= best_score alone, without the test of the tie.
TakesLast(score, best_score, is_default) == score >= best_score

\* if (score >= best_score)
\*         if (score > best_score || is_default_systemroot(...))
Takes(score, best_score, is_default) ==
    score >= best_score /\ (score > best_score \/ is_default)

\* The body of for_dentry_child(potential_systemroot, root) for the child
\* at index i; best is [score, systemroot, kernel32, software, system],
\* the dentries being named by the index of the top-level child, NULL
\* for none.
system_root_step(children, i, best) ==
    LET potential_systemroot == children[i]
        kernel32 == potential_systemroot.kernel32
        software == potential_systemroot.config /\ potential_systemroot.software
        system   == potential_systemroot.config /\ potential_systemroot.system
        score == (IF kernel32 THEN 1 ELSE 0) + (IF software THEN 1 ELSE 0)
                     + (IF system THEN 1 ELSE 0)
    IN  IF ~potential_systemroot.is_directory THEN best
        ELSE IF ~potential_systemroot.system32 THEN best
        ELSE IF Takes(score, best.score, is_default_systemroot(potential_systemroot))
        THEN [score      |-> score,
              systemroot |-> i,
              kernel32   |-> IF kernel32 THEN i ELSE NULL,
              software   |-> IF software THEN i ELSE NULL,
              system     |-> IF system THEN i ELSE NULL]
        ELSE best

\* for_dentry_child(potential_systemroot, root) from the child at index i.
RECURSIVE system_root_loop(_, _, _)
system_root_loop(children, i, best) ==
    IF i > Len(children) THEN best
    ELSE system_root_loop(children, i + 1, system_root_step(children, i, best))

(***************************************************************************)
(* The harvest.  A collaborator is named by its call site <<kind, a, b>>;   *)
(* env.outcome gives what it reports where that is not success, and         *)
(* env.size the size of the blob of each file.  ctx carries the code's      *)
(* oom_encountered, and four histories of the call: oom_reported, the      *)
(* call sites that reported out of memory, warned, those that failed        *)
(* otherwise, properties, the properties set in the XML document, and       *)
(* blobs_read, the files read_blob_into_alloc_buf was called for.           *)
(***************************************************************************)
HIVE_OK == "HIVE_OK"
HIVE_OUT_OF_MEMORY == "HIVE_OUT_OF_MEMORY"
BigBlobSize == 100000000

Outcome(env, site, ok) == IF site \in DOMAIN env.outcome THEN env.outcome[site] ELSE ok

\* ctx after a collaborator at site has made its report: counted is what
\* the code ORs into ctx->oom_encountered.
Reported(ctx, site, failed, is_oom, counted) ==
    [oom_encountered |-> ctx.oom_encountered \/ counted,
     oom_reported    |-> IF is_oom THEN ctx.oom_reported \cup {site} ELSE ctx.oom_reported,
     warned          |-> IF failed /\ ~is_oom THEN ctx.warned \cup {site} ELSE ctx.warned,
     properties      |-> ctx.properties,
     blobs_read      |-> ctx.blobs_read]

\* ret = wimlib_set_image_property(...); if (likely(!ret)) return;
\* ctx->oom_encountered |= (ret == WIMLIB_ERR_NOMEM)
set_string_property(ctx, env, name) ==
    IF Outcome(env, <<"set", name, "">>, WIMLIB_ERR_SUCCESS) = WIMLIB_ERR_SUCCESS
    THEN [ctx EXCEPT !.properties = @ \cup {name}]
    ELSE
    Reported(ctx, <<"set", name, "">>, TRUE,
             Outcome(env, <<"set", name, "">>, WIMLIB_ERR_SUCCESS) = WIMLIB_ERR_NOMEM,
             Outcome(env, <<"set", name, "">>, WIMLIB_ERR_SUCCESS) = WIMLIB_ERR_NOMEM)

set_number_property(ctx, env, name) == set_string_property(ctx, env, name)

\* if (likely(status == HIVE_OK)) return true;
\* ctx->oom_encountered |= (status == HIVE_OUT_OF_MEMORY); return false
check_hive_status(ctx, site, status) ==
    Reported(ctx, site, status # HIVE_OK, status = HIVE_OUT_OF_MEMORY,
             status = HIVE_OUT_OF_MEMORY)

\* What hive_validate, hive_get_string, hive_get_number and
\* hive_list_subkeys report.
hive_status(env, hive, key_name, value_name) ==
    Outcome(env, <<hive, key_name, value_name>>, HIVE_OK)

is_registry_valid(ctx, env, hive) ==
    check_hive_status(ctx, <<hive, "", "">>, hive_status(env, hive, "", ""))

\* get_string_from_registry, get_number_from_registry and
\* list_subkeys_in_registry: the query, then check_hive_status.
get_from_registry(ctx, env, hive, key_name, value_name) ==
    check_hive_status(ctx, <<hive, key_name, value_name>>,
                      hive_status(env, hive, key_name, value_name))

\* if (get_string_from_registry(...)) set_string_property(...)
copy_registry_string(ctx, env, hive, key_name, value_name, property_name) ==
    IF hive_status(env, hive, key_name, value_name) = HIVE_OK
    THEN set_string_property(get_from_registry(ctx, env, hive, key_name, value_name),
                             env, property_name)
    ELSE get_from_registry(ctx, env, hive, key_name, value_name)

\* set_info_from_kernel32: the header checks are env.pe ("invalid" for
\* a file that fails one of them, "unknown" for a machine code that
\* pe_arch_to_windows_arch does not know).
set_info_from_kernel32(ctx, env) ==
    IF env.size["kernel32.dll"] < 64 \/ env.pe = "invalid"
    THEN Reported(ctx, <<"kernel32.dll", "PE", "">>, TRUE, FALSE, FALSE)
    ELSE IF env.pe = "unknown"
    THEN Reported(ctx, <<"kernel32.dll", "PE", "arch">>, TRUE, FALSE, FALSE)
    ELSE set_number_property(ctx, env, "WINDOWS/ARCH")

version_key == "Microsoft\\Windows NT\\CurrentVersion"

\* The six copy_registry_string calls that open set_info_from_software_hive.
software_strings(ctx, env) ==
    copy_registry_string(
     copy_registry_string(
      copy_registry_string(
       copy_registry_string(
        copy_registry_string(
         copy_registry_string(ctx, env, "SOFTWARE", version_key, "EditionID", "FLAGS"),
         env, "SOFTWARE", version_key, "ProductName", "DISPLAYNAME"),
        env, "SOFTWARE", version_key, "ProductName", "DISPLAYDESCRIPTION"),
       env, "SOFTWARE", version_key, "EditionID", "WINDOWS/EDITIONID"),
      env, "SOFTWARE", version_key, "InstallationType", "WINDOWS/INSTALLATIONTYPE"),
     env, "SOFTWARE", version_key, "ProductName", "WINDOWS/PRODUCTNAME")

\* major_version < 0 || minor_version < 0 after the two number queries.
version_number_missing(env) ==
    \/ hive_status(env, "SOFTWARE", version_key, "CurrentMajorVersionNumber") # HIVE_OK
    \/ hive_status(env, "SOFTWARE", version_key, "CurrentMinorVersionNumber") # HIVE_OK

\* The CurrentVersion string was read and tscanf found both numbers in it.
version_string_parsed(env) ==
    /\ version_number_missing(env)
    /\ hive_status(env, "SOFTWARE", version_key, "CurrentVersion") = HIVE_OK
    /\ "CurrentVersion" \notin env.unparsed

\* The number queries and the CurrentVersion fallback.
software_version_queries(ctx, env) ==
    IF version_number_missing(env)
    THEN get_from_registry(
          get_from_registry(
           get_from_registry(ctx, env, "SOFTWARE", version_key, "CurrentMajorVersionNumber"),
           env, "SOFTWARE", version_key, "CurrentMinorVersionNumber"),
          env, "SOFTWARE", version_key, "CurrentVersion")
    ELSE get_from_registry(
          get_from_registry(ctx, env, "SOFTWARE", version_key, "CurrentMajorVersionNumber"),
          env, "SOFTWARE", version_key, "CurrentMinorVersionNumber")

\* if (major_version >= 0) { set MAJOR; if (minor_version >= 0) set MINOR }
software_version_properties(ctx, env) ==
    IF version_string_parsed(env)
       \/ hive_status(env, "SOFTWARE", version_key, "CurrentMajorVersionNumber") = HIVE_OK
    THEN IF version_string_parsed(env)
            \/ hive_status(env, "SOFTWARE", version_key, "CurrentMinorVersionNumber") = HIVE_OK
         THEN set_number_property(set_number_property(ctx, env, "WINDOWS/VERSION/MAJOR"),
                                  env, "WINDOWS/VERSION/MINOR")
         ELSE set_number_property(ctx, env, "WINDOWS/VERSION/MAJOR")
    ELSE ctx

\* The build number: CurrentBuild, or CurrentBuildNumber if that has a dot.
software_build(ctx, env) ==
    IF hive_status(env, "SOFTWARE", version_key, "CurrentBuild") # HIVE_OK
    THEN get_from_registry(ctx, env, "SOFTWARE", version_key, "CurrentBuild")
    ELSE IF "CurrentBuild" \notin env.unparsed
    THEN set_string_property(
          get_from_registry(ctx, env, "SOFTWARE", version_key, "CurrentBuild"),
          env, "WINDOWS/VERSION/BUILD")
    ELSE IF hive_status(env, "SOFTWARE", version_key, "CurrentBuildNumber") = HIVE_OK
    THEN set_string_property(
          get_from_registry(
           get_from_registry(ctx, env, "SOFTWARE", version_key, "CurrentBuild"),
           env, "SOFTWARE", version_key, "CurrentBuildNumber"),
          env, "WINDOWS/VERSION/BUILD")
    ELSE get_from_registry(
          get_from_registry(ctx, env, "SOFTWARE", version_key, "CurrentBuild"),
          env, "SOFTWARE", version_key, "CurrentBuildNumber")

set_info_from_software_hive(ctx, env) ==
    software_build(
     software_version_properties(
      software_version_queries(software_strings(ctx, env), env), env), env)

language_key == "ControlSet001\\Control\\Nls\\Language"

\* set_default_language: an InstallLanguage that tscanf or
\* language_id_to_name does not recognize sets nothing.
set_default_language(ctx, env) ==
    IF hive_status(env, "SYSTEM", language_key, "InstallLanguage") # HIVE_OK
    THEN get_from_registry(ctx, env, "SYSTEM", language_key, "InstallLanguage")
    ELSE IF "InstallLanguage" \in env.unparsed
    THEN Reported(get_from_registry(ctx, env, "SYSTEM", language_key, "InstallLanguage"),
                  <<"SYSTEM", language_key, "language_id_to_name">>, TRUE, FALSE, FALSE)
    ELSE set_string_property(
          get_from_registry(ctx, env, "SYSTEM", language_key, "InstallLanguage"),
          env, "WINDOWS/LANGUAGES/DEFAULT")

windows_key == "ControlSet001\\Control\\Windows"
uilanguages_key == "ControlSet001\\Control\\MUI\\UILanguages"
productoptions_key == "ControlSet001\\Control\\ProductOptions"
hal_key == "ControlSet001\\Control\\Class\\{4D36E966-E325-11CE-BFC1-08002BE10318}\\0000"

\* if (get_number_from_registry(...)) set_number_property(...)
copy_registry_number(ctx, env, hive, key_name, value_name, property_name) ==
    copy_registry_string(ctx, env, hive, key_name, value_name, property_name)

\* The languages: one property for each subkey of uilanguages_key, of
\* which the hive has one.
system_languages(ctx, env) ==
    IF hive_status(env, "SYSTEM", uilanguages_key, "") = HIVE_OK
    THEN set_string_property(
          get_from_registry(ctx, env, "SYSTEM", uilanguages_key, ""),
          env, "WINDOWS/LANGUAGES/LANGUAGE[1]")
    ELSE get_from_registry(ctx, env, "SYSTEM", uilanguages_key, "")

set_info_from_system_hive(ctx, env) ==
    set_default_language(
     system_languages(
      copy_registry_string(
       copy_registry_string(
        copy_registry_string(
         copy_registry_number(
          copy_registry_number(ctx, env, "SYSTEM", windows_key, "CSDBuildNumber",
                               "WINDOWS/VERSION/SPBUILD"),
          env, "SYSTEM", windows_key, "CSDVersion", "WINDOWS/VERSION/SPLEVEL"),
         env, "SYSTEM", productoptions_key, "ProductType", "WINDOWS/PRODUCTTYPE"),
        env, "SYSTEM", productoptions_key, "ProductSuite", "WINDOWS/PRODUCTSUITE"),
       env, "SYSTEM", hal_key, "MatchingDeviceId", "WINDOWS/HAL"),
      env),
     env)

\* load_file_contents returns contents: the dentry exists, it has a blob
\* and read_blob_into_alloc_buf succeeds.
file_loaded(env, dentry, filename) ==
    dentry # NULL /\ Outcome(env, <<filename, "blob", "">>, WIMLIB_ERR_SUCCESS) = WIMLIB_ERR_SUCCESS

\* ctx after load_file_contents; "NO_BLOB" is a NULL from
\* inode_get_blob_for_unnamed_data_stream, anything else but success the
\* ret of read_blob_into_alloc_buf:
\* ctx->oom_encountered |= (ret == WIMLIB_ERR_NOMEM && blob->size < 100000000)
load_file_contents(ctx, env, dentry, filename) ==
    IF dentry = NULL
    THEN Reported(ctx, <<filename, "dentry", "">>, TRUE, FALSE, FALSE)
    ELSE IF Outcome(env, <<filename, "blob", "">>, WIMLIB_ERR_SUCCESS) = "NO_BLOB"
    THEN Reported(ctx, <<filename, "blob", "">>, TRUE, FALSE, FALSE)
    ELSE Reported([ctx EXCEPT !.blobs_read = @ \cup {filename}], <<filename, "blob", "">>,
                  Outcome(env, <<filename, "blob", "">>, WIMLIB_ERR_SUCCESS) # WIMLIB_ERR_SUCCESS,
                  Outcome(env, <<filename, "blob", "">>, WIMLIB_ERR_SUCCESS) = WIMLIB_ERR_NOMEM,
                  /\ Outcome(env, <<filename, "blob", "">>, WIMLIB_ERR_SUCCESS) = WIMLIB_ERR_NOMEM
                  /\ env.size[filename] < BigBlobSize)

\* load_hive returns the hive: it was loaded and is_registry_valid.
hive_loaded(env, dentry, filename) ==
    file_loaded(env, dentry, filename) /\ hive_status(env, filename, "", "") = HIVE_OK

\* ctx after load_hive.
load_hive(ctx, env, dentry, filename) ==
    IF file_loaded(env, dentry, filename)
    THEN is_registry_valid(load_file_contents(ctx, env, dentry, filename), env, filename)
    ELSE load_file_contents(ctx, env, dentry, filename)

\* set_systemroot_property: utf16le_dupz, the upper-casing, utf16le_get_tstr
\* and the property.
set_systemroot_property(ctx, env) ==
    IF Outcome(env, <<"utf16le_dupz", "", "">>, WIMLIB_ERR_SUCCESS) # WIMLIB_ERR_SUCCESS
    THEN Reported(ctx, <<"utf16le_dupz", "", "">>, TRUE, TRUE, TRUE)
    ELSE IF Outcome(env, <<"utf16le_get_tstr", "", "">>, WIMLIB_ERR_SUCCESS) # WIMLIB_ERR_SUCCESS
    THEN Reported(ctx, <<"utf16le_get_tstr", "", "">>, TRUE,
                  Outcome(env, <<"utf16le_get_tstr", "", "">>, WIMLIB_ERR_SUCCESS) = WIMLIB_ERR_NOMEM,
                  Outcome(env, <<"utf16le_get_tstr", "", "">>, WIMLIB_ERR_SUCCESS) = WIMLIB_ERR_NOMEM)
    ELSE set_string_property(ctx, env, "WINDOWS/SYSTEMROOT")

\* The kernel32.dll part of do_set_windows_specific_info.
harvest_kernel32(ctx, env, kernel32) ==
    IF file_loaded(env, kernel32, "kernel32.dll")
    THEN set_info_from_kernel32(load_file_contents(ctx, env, kernel32, "kernel32.dll"), env)
    ELSE load_file_contents(ctx, env, kernel32, "kernel32.dll")

\* The SOFTWARE part.
harvest_software(ctx, env, software) ==
    IF hive_loaded(env, software, "SOFTWARE")
    THEN set_info_from_software_hive(load_hive(ctx, env, software, "SOFTWARE"), env)
    ELSE load_hive(ctx, env, software, "SOFTWARE")

\* The SYSTEM part.
harvest_system(ctx, env, system) ==
    IF hive_loaded(env, system, "SYSTEM")
    THEN set_info_from_system_hive(load_hive(ctx, env, system, "SYSTEM"), env)
    ELSE load_hive(ctx, env, system, "SYSTEM")

NoReports ==
    [oom_encountered |-> FALSE, oom_reported |-> {}, warned |-> {}, properties |-> {},
     blobs_read |-> {}]

\* ctx at the end of do_set_windows_specific_info.
do_set_windows_specific_info(env, kernel32, software, system) ==
    harvest_system(
     harvest_software(
      harvest_kernel32(set_systemroot_property(NoReports, env), env, kernel32),
      env, software),
     env, system)

NoSystemRoot ==
    [score |-> 0, systemroot |-> NULL, kernel32 |-> NULL, software |-> NULL,
     system |-> NULL]

\* A system root was taken whatever its score.
NoSystemRootFoundByDentry(best) == best.systemroot = NULL

\* if (likely(best_score == 0)) return 0
NoSystemRootFound(best) == best.score = 0

\* set_windows_specific_info, the whole call.
SetWindowsSpecificInfo ==
    /\ wpc = "ready"
    /\ wpc' = "done"
    /\ IF ~top_level.root
       THEN /\ win_best' = NoSystemRoot
            /\ win_ctx' = NoReports
            /\ win_ret' = WIMLIB_ERR_SUCCESS
       ELSE \E best \in {system_root_loop(top_level.children, 1, NoSystemRoot)} :
                /\ win_best' = best
                /\ IF NoSystemRootFound(best)
                   THEN win_ctx' = NoReports /\ win_ret' = WIMLIB_ERR_SUCCESS
                   ELSE \E ctx \in {do_set_windows_specific_info(
                                        win_env, best.kernel32, best.software, best.system)} :
                            /\ win_ctx' = ctx
                            /\ win_ret' = IF ctx.oom_encountered THEN WIMLIB_ERR_NOMEM
                                          ELSE WIMLIB_ERR_SUCCESS
    /\ UNCHANGED <<top_level, win_env>>
    /\ UNCHANGED <<huffVars, x86Vars, slotVars, treeVars, metaVars, lruVars, walkVars, scanVars>>

\* The names of the children of the root, in the order of the
\* case-sensitive index that for_dentry_child walks.
TopLevelNames == <<"Data", "Other", "WINDOWS", "Windows", "Zed">>

\* What a child of the root holds: a file, a directory without System32,
\* or a System32 with some of kernel32.dll, config, config/SOFTWARE and
\* config/SYSTEM.
TopLevelKinds ==
    {kind \in [is_directory : BOOLEAN, system32 : BOOLEAN, kernel32 : BOOLEAN,
               config : BOOLEAN, software : BOOLEAN, system : BOOLEAN] :
        /\ kind.system32 => kind.is_directory
        /\ (kind.kernel32 \/ kind.config) => kind.system32
        /\ (kind.software \/ kind.system) => kind.config}

\* The child of the root with the name TopLevelNames[n] and the contents kind.
TopLevelChild(n, kind) ==
    [d_name |-> TopLevelNames[n], is_directory |-> kind.is_directory,
     system32 |-> kind.system32, kernel32 |-> kind.kernel32, config |-> kind.config,
     software |-> kind.software, system |-> kind.system]

\* The children named by present, in the order of TopLevelNames.
RECURSIVE TopLevelChildren(_, _, _)
TopLevelChildren(present, kinds, n) ==
    IF n > Len(TopLevelNames) THEN <<>>
    ELSE IF n \in present
    THEN <<TopLevelChild(n, kinds[n])>> \o TopLevelChildren(present, kinds, n + 1)
    ELSE TopLevelChildren(present, kinds, n + 1)

\* The properties wimlib_set_image_property is called for.
PropertyNames ==
    {"WINDOWS/SYSTEMROOT", "WINDOWS/ARCH", "FLAGS", "DISPLAYNAME", "DISPLAYDESCRIPTION",
     "WINDOWS/EDITIONID", "WINDOWS/INSTALLATIONTYPE", "WINDOWS/PRODUCTNAME",
     "WINDOWS/VERSION/MAJOR", "WINDOWS/VERSION/MINOR", "WINDOWS/VERSION/BUILD",
     "WINDOWS/VERSION/SPBUILD", "WINDOWS/VERSION/SPLEVEL", "WINDOWS/PRODUCTTYPE",
     "WINDOWS/PRODUCTSUITE", "WINDOWS/HAL", "WINDOWS/LANGUAGES/LANGUAGE[1]",
     "WINDOWS/LANGUAGES/DEFAULT"}

\* The registry queries: hive_validate (no key), the values and the subkeys.
HiveQueries ==
    {<<"SOFTWARE", "", "">>, <<"SYSTEM", "", "">>}
    \cup {<<"SOFTWARE", version_key, v>> :
            v \in {"EditionID", "ProductName", "InstallationType",
                   "CurrentMajorVersionNumber", "CurrentMinorVersionNumber",
                   "CurrentVersion", "CurrentBuild", "CurrentBuildNumber"}}
    \cup {<<"SYSTEM", windows_key, v>> : v \in {"CSDBuildNumber", "CSDVersion"}}
    \cup {<<"SYSTEM", productoptions_key, v>> : v \in {"ProductType", "ProductSuite"}}
    \cup {<<"SYSTEM", hal_key, "MatchingDeviceId">>, <<"SYSTEM", uilanguages_key, "">>,
          <<"SYSTEM", language_key, "InstallLanguage">>}

HarvestFiles == {"kernel32.dll", "SOFTWARE", "SYSTEM"}

\* The failures a collaborator can report, as <<call site, report>>.
Failures ==
    {<<<<"set", name, "">>, report>> :
        name \in PropertyNames, report \in {WIMLIB_ERR_NOMEM, "INVALID_PARAM"}}
    \cup {<<query, status>> :
            query \in HiveQueries, status \in {HIVE_OUT_OF_MEMORY, "HIVE_KEY_NOT_FOUND"}}
    \cup {<<<<filename, "blob", "">>, report>> :
            filename \in HarvestFiles, report \in {"NO_BLOB", WIMLIB_ERR_NOMEM, "READ"}}
    \cup {<<<<"utf16le_dupz", "", "">>, "NULL">>}
    \cup {<<<<"utf16le_get_tstr", "", "">>, report>> :
            report \in {WIMLIB_ERR_NOMEM, "INVALID_UTF16_STRING"}}

\* Every collaborator succeeds and every source is well formed.
Benign ==
    [outcome |-> <<>>,
     size |-> [filename \in HarvestFiles |-> BigBlobSize - 1],
     pe |-> "valid", unparsed |-> {}]

\* An image and the collaborators of its harvest: an image without root;
\* every choice of up to MaxTopLevel children with benign collaborators; a
\* Windows directory with up to one failing collaborator, blobs below and
\* at the size limit, and sources that are read but not understood.
InitWindows ==
    /\ HuffIdle /\ X86Idle /\ SlotIdle /\ TreeIdle /\ MetaIdle /\ LruIdle /\ WalkIdle /\ ScanIdle
    /\ wpc = "ready"
    /\ win_best = NoSystemRoot
    /\ win_ctx = NoReports
    /\ win_ret = "none"
    /\ \E image \in {"none", "children", "failures"} :
        IF image = "none"
        THEN top_level = [root |-> FALSE, children |-> <<>>] /\ win_env = Benign
        ELSE IF image = "children"
        THEN /\ win_env = Benign
             /\ \E present \in SUBSET (1..Len(TopLevelNames)) :
                    /\ Cardinality(present) <= MaxTopLevel
                    /\ \E kinds \in [present -> TopLevelKinds] :
                           top_level = [root |-> TRUE,
                                        children |-> TopLevelChildren(present, kinds, 1)]
        ELSE /\ \E kind \in {k \in TopLevelKinds : k.kernel32 \/ k.software \/ k.system} :
                    top_level = [root |-> TRUE, children |-> <<TopLevelChild(4, kind)>>]
             /\ \E failures \in {{}} \cup {{f} : f \in Failures},
                   kernel_size \in {63, BigBlobSize - 1, BigBlobSize},
                   hive_size \in {BigBlobSize - 1, BigBlobSize},
                   pe \in {"valid", "invalid", "unknown"},
                   unparsed \in SUBSET {"CurrentVersion", "CurrentBuild", "InstallLanguage"} :
                    win_env = [outcome |-> [site \in {f[1] : f \in failures} |->
                                               (CHOOSE f \in failures : f[1] = site)[2]],
                               size |-> [filename \in HarvestFiles |->
                                            IF filename = "kernel32.dll" THEN kernel_size
                                            ELSE hive_size],
                               pe |-> pe, unparsed |-> unparsed]

NextWindows == SetWindowsSpecificInfo
SpecWindows == InitWindows /\ [][NextWindows]_vars

(***************************************************************************)
(* Properties of the harvest.                                               *)
(***************************************************************************)
\* The top-level directories that have a System32 child.
SystemRootCandidates == 
    {i \in 1..Len(top_level.children) :
        top_level.children[i].is_directory /\ top_level.children[i].system32}

\* System32 of the child i has the file f ("software" and "system" are
\* below its config).
HasFile(i, f) ==
    top_level.children[i][f] /\ (f = "kernel32" \/ top_level.children[i].config)

\* The score of a candidate, counted from its files.
ScoreOf(i) == Cardinality({f \in {"kernel32", "software", "system"} : HasFile(i, f)})

\* The candidates with the highest score.
BestCandidates ==
    {i \in SystemRootCandidates : \A j \in SystemRootCandidates : ScoreOf(j) <= ScoreOf(i)}

NamedWindows(i) == top_level.children[i].d_name \in {"Windows", "WINDOWS"}

\* The directory the harvest is made from: none when best_score is 0.
SelectedSystemRoot == IF win_best.score = 0 THEN NULL ELSE win_best.systemroot

\* The selection the claim describes.
SelectionIsBest ==
    /\ SelectedSystemRoot \in BestCandidates
    /\ (\E i \in BestCandidates : NamedWindows(i)) => NamedWindows(SelectedSystemRoot)

\* C16 as stated: whenever the root has a directory with a System32 child,
\* the system root selected is such a directory with the highest score,
\* and one named Windows (ignoring case) if a directory with the highest
\* score has that name.
C16_SelectsBestCandidate ==
    (wpc = "done" /\ top_level.root /\ SystemRootCandidates # {}) => SelectionIsBest

\* C16 with the case of no file found set apart: if some candidate has a
\* positive score, the selection is as described, the harvest is made from
\* the selected directory's own files and the system root property is
\* set; if none has, no system root is selected and the call returns 0
\* with no property set.
C16_SelectsBestCandidateWithFiles ==
    (wpc = "done" /\ top_level.root) =>
        IF \E i \in SystemRootCandidates : ScoreOf(i) > 0
        THEN /\ SelectionIsBest
             /\ win_best.score = ScoreOf(SelectedSystemRoot)
             /\ \A f \in {"kernel32", "software", "system"} :
                    win_best[f] = IF HasFile(SelectedSystemRoot, f)
                                  THEN SelectedSystemRoot ELSE NULL
             /\ win_env = Benign => "WINDOWS/SYSTEMROOT" \in win_ctx.properties
        ELSE /\ SelectedSystemRoot = NULL
             /\ win_ret = WIMLIB_ERR_SUCCESS
             /\ win_ctx = NoReports

\* Three candidates with the same positive score, the one named Windows
\* visited between the two others, and selected.
C16_Witness ==
    /\ wpc = "done" /\ top_level.root
    /\ Len(top_level.children) = 3
    /\ top_level.children[1].d_name = "Other"
    /\ top_level.children[2].d_name = "Windows"
    /\ top_level.children[3].d_name = "Zed"
    /\ BestCandidates = {1, 2, 3}
    /\ ScoreOf(1) = 2
    /\ SelectedSystemRoot = 2

\* C17: the call returns a nonzero error exactly when a collaborator
\* reported out of memory during the harvest, and that error is
\* WIMLIB_ERR_NOMEM; any other failure leaves the return value 0.
C17_ErrorExactlyOnOutOfMemory ==
    wpc = "done" =>
        /\ win_ret # WIMLIB_ERR_SUCCESS <=> win_ctx.oom_reported # {}
        /\ win_ret \in {WIMLIB_ERR_SUCCESS, WIMLIB_ERR_NOMEM}

\* The out-of-memory reports of read_blob_into_alloc_buf for a blob of
\* BigBlobSize bytes or more.
BigBlobReports ==
    {<<filename, "blob", "">> : filename \in {f \in HarvestFiles : win_env.size[f] >= BigBlobSize}}

\* What holds instead: the error is returned exactly when out of memory was
\* reported by a collaborator other than the read of a blob of BigBlobSize
\* bytes or more.
ErrorExactlyOnOutOfMemoryButBigBlob ==
    wpc = "done" =>
        /\ win_ret # WIMLIB_ERR_SUCCESS <=> win_ctx.oom_reported \ BigBlobReports # {}
        /\ win_ret \in {WIMLIB_ERR_SUCCESS, WIMLIB_ERR_NOMEM}

\* The properties wimlib_set_image_property was called for, with success
\* or without.
SetterCalls ==
    win_ctx.properties
        \cup {site[2] : site \in {r \in win_ctx.oom_reported \cup win_ctx.warned :
                                      r[1] = "set"}}

\* No top-level directory has one of the three files.
NoDirectoryScores ==
    \A i \in 1..Len(top_level.children) :
        top_level.children[i].is_directory => ScoreOf(i) < 1

\* C29: if no top-level directory scores at least 1 (an image without a
\* root, a directory named Windows without any of the three files), the
\* call returns 0, the property setter is not called and no blob is read:
\* the properties of the image are as they were.
C29_NothingFoundNothingSet ==
    (wpc = "done" /\ NoDirectoryScores) =>
        /\ win_ret = WIMLIB_ERR_SUCCESS
        /\ SetterCalls = {}
        /\ win_ctx.blobs_read = {}
        /\ win_ctx.properties = {}

\* A directory named Windows with a System32 that has none of the three
\* files, taken as best_systemroot by the tie rule with the score 0, next
\* to a file and a directory without System32; the call has returned 0.
C29_Witness ==
    /\ wpc = "done" /\ top_level.root /\ NoDirectoryScores
    /\ Len(top_level.children) = 3
    /\ \E i \in SystemRootCandidates :
           /\ top_level.children[i].d_name = "Windows"
           /\ win_best.systemroot = i
    /\ \E i \in 1..3 : ~top_level.children[i].is_directory
    /\ win_best.score = 0
    /\ win_ret = WIMLIB_ERR_SUCCESS

(***************************************************************************)
(* lzms-common.c: the slot base tables and lzms_get_slot                    *)
(***************************************************************************)
LZMS_MAX_NUM_OFFSET_SYMS == 799
LZMS_NUM_LEN_SYMS == 54

position_slot_delta_run_lens ==
    <<9, 0, 9, 7, 10, 15, 15, 20, 20, 30, 33, 40, 42, 45, 60, 73, 80, 85, 95, 105, 6>>

length_slot_delta_run_lens ==
    <<27, 4, 6, 4, 5, 2, 1, 1, 1, 1, 1, 0, 0, 0, 0, 0, 1>>

\* lzms_decode_delta_rle_slot_bases from the run i: the while (run_len--)
\* of a run stores base + delta, base + 2 * delta, ... in the next
\* run_len slots, then delta <<= 1.  slot_bases is what has been stored, in
\* the order of the slots.  No base or delta of the two tables reaches 2^31.
RECURSIVE decode_delta_rle(_, _, _, _, _)
decode_delta_rle(slot_bases, delta_run_lens, i, delta, base) ==
    IF i > Len(delta_run_lens) THEN slot_bases
    ELSE decode_delta_rle(
             slot_bases \o [k \in 1..delta_run_lens[i] |-> base + k * delta],
             delta_run_lens, i + 1, 2 * delta, base + delta_run_lens[i] * delta)

lzms_decode_delta_rle_slot_bases(delta_run_lens) ==
    decode_delta_rle(<<>>, delta_run_lens, 1, 1, 0)

\* A table of num_slots + 1 entries after lzms_compute_slot_bases, the
\* entry of slot s at s + 1: the decoded bases, zero where none was
\* stored, and the sentinel at num_slots.
SlotBaseTable(decoded, num_slots, sentinel) ==
    SubSeq(decoded \o [k \in 1..(num_slots - Len(decoded)) |-> 0], 1, num_slots)
        \o <<sentinel>>

\* slot_base_tab[slot]
SlotBase(slot_base_tab, slot) == slot_base_tab[slot + 1]

lzms_position_slot_base ==
    SlotBaseTable(lzms_decode_delta_rle_slot_bases(position_slot_delta_run_lens),
                  LZMS_MAX_NUM_OFFSET_SYMS, POSITION_SENTINEL)

lzms_length_slot_base ==
    SlotBaseTable(lzms_decode_delta_rle_slot_bases(length_slot_delta_run_lens),
                  LZMS_NUM_LEN_SYMS, LENGTH_SENTINEL)

\* The test of the loop with < in place of <=.
slot_is_below_less(entry, value) == entry < value

\* slot_base_tab[slot + 1] <= value
slot_is_below(entry, value) == entry <= value

SlotTables == {"position", "length"}
SlotTable(which) ==
    IF which = "position" THEN lzms_position_slot_base ELSE lzms_length_slot_base
NumSlots(which) ==
    IF which = "position" THEN LZMS_MAX_NUM_OFFSET_SYMS ELSE LZMS_NUM_LEN_SYMS

\* The values a table is searched for: 0, and every entry of the table,
\* the value below it and the one above it, up to 2^31 - 1.
SlotValues(which) ==
    {0} \cup {SlotBase(SlotTable(which), slot) : slot \in 0..NumSlots(which)}
        \cup {SlotBase(SlotTable(which), slot) - 1 : slot \in 0..NumSlots(which)}
        \cup {SlotBase(SlotTable(which), slot) + 1 :
                slot \in {sl \in 0..NumSlots(which) :
                            SlotBase(SlotTable(which), sl) < POSITION_SENTINEL}}

NoSlotCall == [table |-> "none", value |-> 0, slot |-> 0, last_read |-> 0, pc |-> "none"]

\* lzms_get_slot(value, table, num_slots) is entered: unsigned slot = 0.
LzmsGetSlot ==
    /\ TablesWritten
    /\ slot_call.pc = "none"
    /\ \E which \in SlotTables :
           \E value \in SlotValues(which) :
               slot_call' = [table |-> which, value |-> value, slot |-> 0,
                             last_read |-> 0, pc |-> "while"]
    /\ UNCHANGED <<tpc, mutex, already_computed, slot_base, todo, computes>>
    /\ UNCHANGED <<huffVars, x86Vars, treeVars, metaVars, winVars, lruVars, walkVars, scanVars>>

\* while (slot_base_tab[slot + 1] <= value) slot++; return slot;
\* one test of the loop.  A read past the end of the table is a read of
\* whatever follows it in memory: the loop stops there or after one more
\* slot.
GetSlotLoop ==
    /\ slot_call.pc = "while"
    /\ IF slot_call.slot + 1 > NumSlots(slot_call.table)
       THEN \E slot \in {slot_call.slot, slot_call.slot + 1} :
                slot_call' = [slot_call EXCEPT !.slot = slot, !.pc = "return",
                                               !.last_read = slot_call.slot + 1]
       ELSE IF slot_is_below(SlotBase(SlotTable(slot_call.table), slot_call.slot + 1),
                             slot_call.value)
       THEN slot_call' = [slot_call EXCEPT !.slot = @ + 1, !.last_read = slot_call.slot + 1]
       ELSE slot_call' = [slot_call EXCEPT !.pc = "return", !.last_read = slot_call.slot + 1]
    /\ UNCHANGED <<tpc, mutex, already_computed, slot_base, todo, computes>>
    /\ UNCHANGED <<huffVars, x86Vars, treeVars, metaVars, winVars, lruVars, walkVars, scanVars>>

\* After lzms_init_slot_bases has returned in a thread and its stores are
\* in memory.
InitGetSlot ==
    /\ HuffIdle /\ X86Idle /\ TreeIdle /\ MetaIdle /\ WinIdle /\ LruIdle /\ WalkIdle /\ ScanIdle
    /\ tpc = [t \in Threads |-> IF t = 1 THEN "done" ELSE "start"]
    /\ mutex = 0
    /\ already_computed = TRUE
    /\ slot_base = lzms_compute_slot_bases
    /\ todo = {}
    /\ computes = 1
    /\ slot_call = NoSlotCall

NextGetSlot == LzmsGetSlot \/ GetSlotLoop

SpecGetSlot == InitGetSlot /\ [][NextGetSlot]_vars

(***************************************************************************)
(* Properties of lzms_get_slot.                                             *)
(***************************************************************************)
SlotReturned == slot_call.pc = "return"

\* The slot returned is the one whose range holds the value, no entry past
\* index num_slots was read, and the slot is smaller than num_slots.
SlotHoldsValue ==
    /\ slot_call.slot < NumSlots(slot_call.table)
    /\ slot_call.last_read <= NumSlots(slot_call.table)
    /\ SlotBase(SlotTable(slot_call.table), slot_call.slot) <= slot_call.value
    /\ slot_call.value < SlotBase(SlotTable(slot_call.table), slot_call.slot + 1)

\* C18 as stated: for both tables and every value below the sentinel of
\* the table, 0 included, the slot returned holds the value.
C18_SlotHoldsValue ==
    (SlotReturned /\ slot_call.value < SlotBase(SlotTable(slot_call.table), NumSlots(slot_call.table)))
        => SlotHoldsValue

\* C18 for the values the tables cover: from the first base, which is 1,
\* to below the sentinel the slot returned holds the value; for the value
\* 0, which is below every base, slot 0 is returned after one read.
C18_SlotHoldsValueFromFirstBase ==
    (SlotReturned /\ slot_call.value < SlotBase(SlotTable(slot_call.table), NumSlots(slot_call.table)))
        => IF slot_call.value >= SlotBase(SlotTable(slot_call.table), 0)
           THEN SlotHoldsValue
           ELSE slot_call.value = 0 /\ slot_call.slot = 0 /\ slot_call.last_read = 1

\* The last value before the sentinel of the position table is found in
\* the last slot, after the sentinel was read.
C18_Witness ==
    /\ SlotReturned
    /\ slot_call.table = "position"
    /\ slot_call.value = POSITION_SENTINEL - 1
    /\ slot_call.slot = LZMS_MAX_NUM_OFFSET_SYMS - 1
    /\ slot_call.last_read = LZMS_MAX_NUM_OFFSET_SYMS

(***************************************************************************)
(* Properties of the stream types.                                          *)
(***************************************************************************)
\* The unnamed streams with a nonzero hash, and those with the zero hash.
UnnamedNonzero(strms) ==
    {i \in DOMAIN strms : ~stream_is_named(strms[i]) /\ strms[i].hash # zero_hash}
UnnamedZero(strms) ==
    {i \in DOMAIN strms : ~stream_is_named(strms[i]) /\ strms[i].hash = zero_hash}

\* The members of a set of indexes that have exactly k members before them.
Nth(indexes, k) == {i \in indexes : Cardinality({j \in indexes : j < i}) = k}

\* The type the rules give the stream i of an inode with the attributes.
TypeByRules(strms, attributes, i) ==
    LET nonzero == UnnamedNonzero(strms)
        reparse == IF "REPARSE_POINT" \in attributes THEN Nth(nonzero, 0) ELSE {}
        first_data == Nth(nonzero \ reparse, 0)
        zero    == UnnamedZero(strms)
    IN  IF "ENCRYPTED" \in attributes
        THEN (IF i \in Nth(nonzero, 0) THEN "EFSRPC_RAW_DATA" ELSE "UNKNOWN")
        ELSE IF stream_is_named(strms[i]) THEN "DATA"
        ELSE IF i \in reparse THEN "REPARSE_POINT"
        ELSE IF i \in first_data THEN "DATA"
        ELSE IF first_data = {} /\ i \in zero /\ \A j \in zero : j <= i THEN "DATA"
        ELSE "UNKNOWN"

\* The streams the record of the file a names: the default hash as an
\* unnamed stream, then the extra stream entries.
StreamsOfRecord ==
    [k \in 1..(1 + mbuf[SlotAt(1)].num_extra_streams) |->
        IF k = 1 THEN [stream_name |-> NO_STREAM_NAME,
                       hash |-> mbuf[SlotAt(1)].default_hash]
        ELSE [stream_name |-> mbuf[StreamEntryAt(k - 1)].name,
              hash |-> mbuf[StreamEntryAt(k - 1)].hash]]

\* C19: after setup_inode_streams the streams of an inode are those of its
\* record, typed by the rules: unencrypted, named streams are DATA, the
\* first unnamed stream with a nonzero hash is REPARSE_POINT iff the inode
\* is a reparse point, the first of the remaining ones is DATA, and the
\* last unnamed stream with the zero hash is DATA only if there is no
\* such stream; encrypted, only the first unnamed stream with a nonzero
\* hash is typed, EFSRPC_RAW_DATA.  So an inode has at most one
\* REPARSE_POINT, one unnamed DATA and one EFSRPC_RAW_DATA stream, and an
\* encrypted inode has no REPARSE_POINT stream.
C19_StreamTypes ==
    mpc = "read" =>
        /\ read_ret = WIMLIB_ERR_SUCCESS
        /\ \E e \in root_ret : e.path = <<<<"a">>>>
        /\ \A e \in root_ret :
              e.path = <<<<"a">>>> =>
                LET strms == e.d_inode.i_streams
                    attributes == e.d_inode.i_attributes
                IN  /\ attributes = mbuf[SlotAt(1)].attributes
                    /\ DOMAIN strms = DOMAIN StreamsOfRecord
                    /\ \A i \in DOMAIN strms :
                          /\ strms[i].stream_name = StreamsOfRecord[i].stream_name
                          /\ strms[i].hash = StreamsOfRecord[i].hash
                          /\ strms[i].stream_type = TypeByRules(strms, attributes, i)
                    /\ Cardinality(ReparsePointStreams(strms)) <= 1
                    /\ Cardinality(UnnamedStreams(strms, "DATA")) <= 1
                    /\ Cardinality(UnnamedStreams(strms, "EFSRPC_RAW_DATA")) <= 1
                    /\ "ENCRYPTED" \in attributes => ReparsePointStreams(strms) = {}
                    /\ "ENCRYPTED" \in attributes =>
                          \A i \in DOMAIN strms :
                              strms[i].stream_type \in {"UNKNOWN", "EFSRPC_RAW_DATA"}

\* A reparse point with two unnamed nonzero streams after a zero default
\* hash and a named stream: REPARSE_POINT, DATA, and the zero-hash stream
\* left untyped.
C19_Witness ==
    /\ mpc = "read" /\ read_ret = WIMLIB_ERR_SUCCESS
    /\ \E e \in root_ret :
          /\ e.path = <<<<"a">>>>
          /\ e.d_inode.i_attributes = {"REPARSE_POINT"}
          /\ [i \in DOMAIN e.d_inode.i_streams |-> e.d_inode.i_streams[i].stream_type]
                 = <<"UNKNOWN", "DATA", "REPARSE_POINT", "DATA">>
          /\ stream_is_named(e.d_inode.i_streams[2])

(***************************************************************************)
(* Properties of the record write_dentry emits.                             *)
(***************************************************************************)
\* The record of the file a, and the items that follow a record or an
\* entry at p, each found at the end of the one before, up to the end of
\* the directory.
WrittenRecord == mbuf[in_tree[0].subdir_offset]

RECURSIVE ItemsFrom(_, _)
ItemsFrom(p, n) ==
    IF n = 0 \/ p \notin DOMAIN mbuf THEN <<>>
    ELSE IF mbuf[p] = END_OF_DIRECTORY THEN <<mbuf[p]>>
    ELSE <<mbuf[p]>> \o ItemsFrom(p + mbuf[p].length, n - 1)

\* What follows the record up to the end of the directory.
WrittenEntries ==
    ItemsFrom(in_tree[0].subdir_offset + WrittenRecord.length,
              Cardinality(DOMAIN mbuf))

\* The hash of the one stream of the inode with the type and no name, zero
\* if it has none.
HashOfUnnamed(inode, type) ==
    IF \E i \in DOMAIN inode.i_streams :
           inode.i_streams[i] \in {Stream(NO_STREAM_NAME, h, type) : h \in {zero_hash, 1, 2}}
    THEN (CHOOSE strm \in {inode.i_streams[i] : i \in DOMAIN inode.i_streams} :
              strm.stream_type = type /\ strm.stream_name = NO_STREAM_NAME).hash
    ELSE zero_hash

\* C20: for an unencrypted inode extra stream entries are written iff it
\* has a reparse point stream or a named data stream; then default_hash is
\* zero and the entries are the reparse point stream if there is one, the
\* unnamed data stream (the zero hash if there is none) and the named data
\* streams in the order of the inode, and num_extra_streams is their
\* number; else num_extra_streams is 0 and default_hash the hash of the
\* unnamed data stream.  For an encrypted inode num_extra_streams is 0 and
\* default_hash the hash of the EFSRPC stream, zero if there is none.
C20_ExtraStreamEntries ==
    mpc = "written" =>
        LET inode == in_tree[1].d_inode
            strms == inode.i_streams
            has_reparse == \E i \in DOMAIN strms : strms[i].stream_type = "REPARSE_POINT"
            named == SelectSeq(strms, stream_is_named)
            entries == SubSeq(WrittenEntries, 1, Len(WrittenEntries) - 1)
            ahead == IF has_reparse THEN 2 ELSE 1
        IN  /\ WrittenEntries # <<>>
            /\ WrittenEntries[Len(WrittenEntries)] = END_OF_DIRECTORY
            /\ \A k \in DOMAIN entries : entries[k] # END_OF_DIRECTORY
            /\ WrittenRecord.num_extra_streams = Len(entries)
            /\ IF "ENCRYPTED" \in inode.i_attributes
               THEN /\ entries = <<>>
                    /\ WrittenRecord.default_hash = HashOfUnnamed(inode, "EFSRPC_RAW_DATA")
               ELSE IF has_reparse \/ named # <<>>
               THEN /\ WrittenRecord.default_hash = zero_hash
                    /\ Len(entries) = ahead + Len(named)
                    /\ has_reparse =>
                          /\ entries[1].name = NO_STREAM_NAME
                          /\ entries[1].hash = HashOfUnnamed(inode, "REPARSE_POINT")
                    /\ entries[ahead].name = NO_STREAM_NAME
                    /\ entries[ahead].hash = HashOfUnnamed(inode, "DATA")
                    /\ \A k \in DOMAIN named :
                          /\ entries[ahead + k].name = named[k].stream_name
                          /\ entries[ahead + k].hash = named[k].hash
               ELSE /\ entries = <<>>
                    /\ WrittenRecord.default_hash = HashOfUnnamed(inode, "DATA")

\* A reparse point whose named stream comes first in the inode and whose
\* unnamed data stream comes before the reparse point stream: three
\* entries, reparse point, unnamed, named.
C20_Witness ==
    /\ mpc = "written"
    /\ in_tree[1].d_inode.i_attributes = {"REPARSE_POINT"}
    /\ in_tree[1].d_inode.i_streams =
           <<Stream(<<"a">>, 1, "DATA"), Stream(NO_STREAM_NAME, 2, "DATA"),
             Stream(NO_STREAM_NAME, 1, "REPARSE_POINT")>>
    /\ WrittenRecord.num_extra_streams = 3
    /\ WrittenRecord.default_hash = zero_hash
    /\ [k \in 1..3 |-> WrittenEntries[k].hash] = <<1, 2, 1>>

(***************************************************************************)
(* The layout calculate_subdir_offsets computes and the one                *)
(* write_dentry_tree emits.                                                 *)
(***************************************************************************)
\* The bytes of the n extra stream entries from p on.
RECURSIVE EntryBytes(_, _)
EntryBytes(p, n) ==
    IF n = 0 THEN 0
    ELSE IF p \notin DOMAIN mbuf THEN -1
    ELSE mbuf[p].length + EntryBytes(p + mbuf[p].length, n - 1)

\* The bytes written for the record at p: the record and its extra stream
\* entries.
RecordBytes(p) ==
    mbuf[p].length + EntryBytes(p + mbuf[p].length, mbuf[p].num_extra_streams)

\* The records of the children are at p and each at the end of the one
\* before, dentry_out_total_length bytes each, and the 8 zero bytes follow.
RECURSIVE ChildrenWrittenAt(_, _)
ChildrenWrittenAt(children, p) ==
    IF p \notin DOMAIN mbuf THEN FALSE
    ELSE IF children = <<>> THEN mbuf[p] = END_OF_DIRECTORY
    ELSE /\ mbuf[p] # END_OF_DIRECTORY
         /\ mbuf[p].file_name = in_tree[Head(children)].file_name
         /\ mbuf[p].subdir_offset = in_tree[Head(children)].subdir_offset
         /\ RecordBytes(p) = dentry_out_total_length(in_tree[Head(children)])
         /\ ChildrenWrittenAt(Tail(children), p + RecordBytes(p))

\* The bytes of all the dentries and of one end of directory entry for the
\* root and one for each directory.
TreeBytes ==
    SumSeq([k \in 1..Cardinality(DOMAIN in_tree) |->
               dentry_out_total_length(in_tree[k - 1])
                   + (IF inode_is_directory(in_tree[k - 1].d_inode) THEN 8 ELSE 0)])
        + 8

IndexesBelow(r) ==
    (r * Pow2(max_codeword_len - table_bits))
        ..((r + 1) * Pow2(max_codeword_len - table_bits) - 1)

\* The root indexes that are the first table_bits bits of a canonical
\* codeword longer than table_bits.
LongPrefixes ==
    {r \in RootIndexes :
        \E s \in UsedSyms : lens[s] > table_bits /\ IndexesBelow(r) \cap CanonIndexes(s) # {}}

\* The entries of the subtable a pointer entry leads to.
SubtableIndexes(e) == EntrySymbol(e)..(EntrySymbol(e) + Pow2(EntryLength(e)) - 1)

\* The root entry r is the leaf of a codeword of at most table_bits bits.
RootLeaf(r) ==
    \E s \in UsedSyms :
        /\ lens[s] <= table_bits
        /\ IndexesBelow(r) \subseteq CanonIndexes(s)
        /\ decode_table[r] = MAKE_DECODE_TABLE_ENTRY(s, lens[s])

\* The root entry r points to a subtable past the root that is written
\* whole and is indexed by no more bits than a codeword has left.
RootPointer(r) ==
    /\ r \in LongPrefixes
    /\ EntrySymbol(decode_table[r]) >= Pow2(table_bits)
    /\ EntryLength(decode_table[r]) \in 1..(max_codeword_len - table_bits)
    /\ SubtableIndexes(decode_table[r]) \subseteq DOMAIN decode_table

\* The entry the bits of the index j lead to through the pointer entry e.
SubtableEntry(e, j) ==
    decode_table[EntrySymbol(e)
                     + ((j % Pow2(max_codeword_len - table_bits))
                            \div Pow2(max_codeword_len - table_bits - EntryLength(e)))]

\* Every root entry is written and is a leaf or a pointer, the subtables
\* follow the root and one another without a gap and without overlap, and
\* a codeword of n > table_bits bits leads to the leaf (symbol, n -
\* table_bits).
RootAndSubtables ==
    /\ RootIndexes \subseteq DOMAIN decode_table
    /\ \A r \in RootIndexes : RootLeaf(r) \/ RootPointer(r)
    /\ \A r1, r2 \in LongPrefixes :
           r1 # r2 => SubtableIndexes(decode_table[r1])
                          \cap SubtableIndexes(decode_table[r2]) = {}
    /\ DOMAIN decode_table =
           RootIndexes \cup UNION {SubtableIndexes(decode_table[r]) : r \in LongPrefixes}
    /\ \E end \in Pow2(table_bits)..(Pow2(max_codeword_len) + Pow2(table_bits)) :
           DOMAIN decode_table = 0..(end - 1)
    /\ \A s \in UsedSyms : \A j \in CanonIndexes(s) :
           lens[s] > table_bits =>
               SubtableEntry(decode_table[j \div Pow2(max_codeword_len - table_bits)], j)
                   = MAKE_DECODE_TABLE_ENTRY(s, lens[s] - table_bits)

\* C22 as stated: whenever the table is built with table_bits <
\* max_codeword_len, the root entries are leaves or pointers and the
\* subtables are laid out and filled as described.
C22_RootAndSubtables ==
    (hpc = "done" /\ ret = 0 /\ table_bits < max_codeword_len)
        => RootAndSubtables

\* C22: whenever the table is built for lengths that are not all zero with
\* table_bits < max_codeword_len, every root entry is written and is the
\* leaf of a codeword of at most table_bits bits or a pointer to a
\* subtable, the subtables are laid out from index 2^table_bits on without
\* a gap and without overlap, each written whole, and a codeword of
\* n > table_bits bits leads to the leaf (symbol, n - table_bits).
C22_RootAndSubtablesOfCode ==
    (hpc = "done" /\ ret = 0 /\ table_bits < max_codeword_len /\ UsedSyms # {})
        => RootAndSubtables

\* A root of one leaf and one pointer, whose subtable is grown from one to
\* two bits to take in the codewords of three bits.
C22_Witness ==
    /\ hpc = "done" /\ ret = 0 /\ table_bits = 1 /\ max_codeword_len = 3
    /\ LongPrefixes = {1}
    /\ RootLeaf(0)
    /\ EntryLength(decode_table[1]) = 2
    /\ \E s \in UsedSyms : lens[s] = 2
    /\ RootAndSubtables

(***************************************************************************)
(* lzms-common.c: the LRU queues of recent LZ and delta offsets.            *)
(***************************************************************************)
LZMS_NUM_RECENT_OFFSETS == 3
MaxCalls == 4       \* calls of lzms_update_lru_queues

\* The offsets and powers the decoder stages, 0 for none.
StagedOffsets == {0, 1, 7}
StagedPowers == {0, 3}

lzms_init_lz_lru_queues ==
    [recent_offsets  |-> [i \in 0..LZMS_NUM_RECENT_OFFSETS |-> i + 1],
     prev_offset     |-> 0,
     upcoming_offset |-> 0]

lzms_init_delta_lru_queues ==
    [recent_offsets  |-> [i \in 0..LZMS_NUM_RECENT_OFFSETS |-> i + 1],
     recent_powers   |-> [i \in 0..LZMS_NUM_RECENT_OFFSETS |-> 0],
     prev_offset     |-> 0,
     prev_power      |-> 0,
     upcoming_offset |-> 0,
     upcoming_power  |-> 0]

lzms_init_lru_queues ==
    [lz |-> lzms_init_lz_lru_queues, delta |-> lzms_init_delta_lru_queues]

\* for (i = LZMS_NUM_RECENT_OFFSETS - 1; i >= 0; i--) recent[i + 1] =
\* recent[i]; recent[0] = prev;
RECURSIVE ShiftIn(_, _, _)
ShiftIn(recent, i, prev) ==
    IF i < 0 THEN [recent EXCEPT ![0] = prev]
    ELSE ShiftIn([recent EXCEPT ![i + 1] = recent[i]], i - 1, prev)

\* An update that takes the staged offset into the queue at once.
lzms_update_lz_lru_queues_at_once(lz) ==
    [recent_offsets  |-> IF lz.upcoming_offset # 0
                         THEN ShiftIn(lz.recent_offsets,
                                      LZMS_NUM_RECENT_OFFSETS - 1,
                                      lz.upcoming_offset)
                         ELSE lz.recent_offsets,
     prev_offset     |-> lz.upcoming_offset,
     upcoming_offset |-> lz.upcoming_offset]

lzms_update_lz_lru_queues(lz) ==
    [recent_offsets  |-> IF lz.prev_offset # 0
                         THEN ShiftIn(lz.recent_offsets,
                                      LZMS_NUM_RECENT_OFFSETS - 1,
                                      lz.prev_offset)
                         ELSE lz.recent_offsets,
     prev_offset     |-> lz.upcoming_offset,
     upcoming_offset |-> lz.upcoming_offset]

lzms_update_delta_lru_queues(delta) ==
    [recent_offsets  |-> IF delta.prev_offset # 0
                         THEN ShiftIn(delta.recent_offsets,
                                      LZMS_NUM_RECENT_OFFSETS - 1,
                                      delta.prev_offset)
                         ELSE delta.recent_offsets,
     recent_powers   |-> IF delta.prev_offset # 0
                         THEN ShiftIn(delta.recent_powers,
                                      LZMS_NUM_RECENT_OFFSETS - 1,
                                      delta.prev_power)
                         ELSE delta.recent_powers,
     prev_offset     |-> delta.upcoming_offset,
     prev_power      |-> delta.upcoming_power,
     upcoming_offset |-> delta.upcoming_offset,
     upcoming_power  |-> delta.upcoming_power]

lzms_update_lru_queues(queues) ==
    [lz    |-> lzms_update_lz_lru_queues(queues.lz),
     delta |-> lzms_update_delta_lru_queues(queues.delta)]

\* The queues of a decoder before lzms_init_lru_queues.
InitLru ==
    /\ HuffIdle /\ X86Idle /\ SlotIdle /\ TreeIdle /\ MetaIdle /\ WinIdle /\ WalkIdle /\ ScanIdle
    /\ qpc = "uninit" /\ lru = <<>> /\ lru_calls = 0
    /\ lru_before = <<>> /\ lru_before2 = <<>>

LzmsInitLruQueues ==
    /\ qpc = "uninit"
    /\ lru' = lzms_init_lru_queues
    /\ qpc' = "ready"
    /\ UNCHANGED <<lru_calls, lru_before, lru_before2>>
    /\ UNCHANGED <<huffVars, x86Vars, slotVars, treeVars, metaVars, winVars, walkVars, scanVars>>

\* The decoder stages the offset of the LZ match it decoded, 0 after
\* another item.
StageLzOffset ==
    /\ qpc = "ready" /\ lru_calls < MaxCalls
    /\ \E offset \in StagedOffsets :
           lru' = [lru EXCEPT !.lz.upcoming_offset = offset]
    /\ UNCHANGED <<qpc, lru_calls, lru_before, lru_before2>>
    /\ UNCHANGED <<huffVars, x86Vars, slotVars, treeVars, metaVars, winVars, walkVars, scanVars>>

\* The decoder stages the offset and power of the delta match it decoded.
StageDeltaOffset ==
    /\ qpc = "ready" /\ lru_calls < MaxCalls
    /\ \E offset \in StagedOffsets, power \in StagedPowers :
           lru' = [lru EXCEPT !.delta.upcoming_offset = offset,
                              !.delta.upcoming_power = power]
    /\ UNCHANGED <<qpc, lru_calls, lru_before, lru_before2>>
    /\ UNCHANGED <<huffVars, x86Vars, slotVars, treeVars, metaVars, winVars, walkVars, scanVars>>

LzmsUpdateLruQueues ==
    /\ qpc = "ready" /\ lru_calls < MaxCalls
    /\ lru' = lzms_update_lru_queues(lru)
    /\ lru_calls' = lru_calls + 1
    /\ lru_before' = lru
    /\ lru_before2' = lru_before
    /\ UNCHANGED qpc
    /\ UNCHANGED <<huffVars, x86Vars, slotVars, treeVars, metaVars, winVars, walkVars, scanVars>>

NextLru ==
    \/ LzmsInitLruQueues
    \/ StageLzOffset
    \/ StageDeltaOffset
    \/ LzmsUpdateLruQueues

SpecLru == InitLru /\ [][NextLru]_vars

(***************************************************************************)
(* Properties of the LRU queues.                                            *)
(***************************************************************************)
\* The entries 0 .. N - 1 of the queue before are the entries 1 .. N of the
\* queue after.
MovedUp(before, after) ==
    \A i \in 0..(LZMS_NUM_RECENT_OFFSETS - 1) : after[i + 1] = before[i]

\* The offset staged before the last call is in prev_offset after it, the
\* one staged before the call before the last is recent_offsets[0] with the
\* former entries moved up, and a call that finds prev_offset 0 leaves the
\* queue as it is: the LZ queue, then the same of the delta queue.
LagsByOne ==
    /\ lru_calls >= 1 =>
           /\ lru.lz.prev_offset = lru_before.lz.upcoming_offset
           /\ lru_before.lz.prev_offset = 0 =>
                  lru.lz.recent_offsets = lru_before.lz.recent_offsets
           /\ lru.delta.prev_offset = lru_before.delta.upcoming_offset
           /\ lru.delta.prev_power = lru_before.delta.upcoming_power
           /\ lru_before.delta.prev_offset = 0 =>
                  /\ lru.delta.recent_offsets = lru_before.delta.recent_offsets
                  /\ lru.delta.recent_powers = lru_before.delta.recent_powers
    /\ (lru_calls >= 2 /\ lru_before2.lz.upcoming_offset # 0) =>
           /\ lru.lz.recent_offsets[0] = lru_before2.lz.upcoming_offset
           /\ MovedUp(lru_before.lz.recent_offsets, lru.lz.recent_offsets)
    /\ (lru_calls >= 2 /\ lru_before2.delta.upcoming_offset # 0) =>
           /\ lru.delta.recent_offsets[0] = lru_before2.delta.upcoming_offset
           /\ lru.delta.recent_powers[0] = lru_before2.delta.upcoming_power
           /\ MovedUp(lru_before.delta.recent_offsets, lru.delta.recent_offsets)
           /\ MovedUp(lru_before.delta.recent_powers, lru.delta.recent_powers)

\* After the call that follows its staging a nonzero offset is not
\* recent_offsets[0], nor a pair of the delta queue its entry 0.
StagedIsNotYetRecent ==
    lru_calls >= 1 =>
        /\ lru_before.lz.upcoming_offset # 0 =>
               lru.lz.recent_offsets[0] # lru_before.lz.upcoming_offset
        /\ lru_before.delta.upcoming_offset # 0 =>
               <<lru.delta.recent_offsets[0], lru.delta.recent_powers[0]>>
                   # <<lru_before.delta.upcoming_offset,
                        lru_before.delta.upcoming_power>>

\* After the call that follows the staging of a nonzero offset entry 0 of
\* the queue is that offset only if it was entry 0 before the call or was
\* prev_offset before the call.
StagedIsRecentOnlyFromBefore ==
    lru_calls >= 1 =>
        /\ (/\ lru_before.lz.upcoming_offset # 0
            /\ lru.lz.recent_offsets[0] = lru_before.lz.upcoming_offset)
               => lru_before.lz.upcoming_offset
                      \in {lru_before.lz.recent_offsets[0], lru_before.lz.prev_offset}
        /\ (/\ lru_before.delta.upcoming_offset # 0
            /\ <<lru.delta.recent_offsets[0], lru.delta.recent_powers[0]>>
                   = <<lru_before.delta.upcoming_offset,
                       lru_before.delta.upcoming_power>>)
               => <<lru_before.delta.upcoming_offset, lru_before.delta.upcoming_power>>
                      \in {<<lru_before.delta.recent_offsets[0],
                             lru_before.delta.recent_powers[0]>>,
                           <<lru_before.delta.prev_offset,
                             lru_before.delta.prev_power>>}

\* C23 as stated: a nonzero offset staged before call k is not
\* recent_offsets[0] after call k, only prev_offset, and is
\* recent_offsets[0] after call k + 1 with the former entries 0 .. N - 1
\* moved to 1 .. N; a call that finds prev_offset 0 leaves the queue
\* unchanged; the same for the pairs of the delta queue.
C23_QueueLagsByOne == LagsByOne /\ StagedIsNotYetRecent

\* C23: a nonzero offset staged before call k is prev_offset after call k,
\* and recent_offsets[0] after call k only if it was there or was
\* prev_offset before that call; it is recent_offsets[0] after call k + 1
\* with the former entries 0 .. N - 1 moved to 1 .. N; a call that finds
\* prev_offset 0 leaves the queue unchanged; the same for the pairs of the
\* delta queue.
C23_QueueLagsByOneStep == LagsByOne /\ StagedIsRecentOnlyFromBefore

\* The offset 7 staged before the first call: in prev_offset after it and
\* at the head of the queue 7, 1, 2, 3 after the second.
C23_Witness ==
    /\ lru_calls = 2
    /\ lru_before2.lz.upcoming_offset = 7
    /\ lru_before.lz.prev_offset = 7
    /\ lru_before.lz.recent_offsets = [i \in 0..LZMS_NUM_RECENT_OFFSETS |-> i + 1]
    /\ lru.lz.recent_offsets = [i \in 0..LZMS_NUM_RECENT_OFFSETS |->
                                   IF i = 0 THEN 7 ELSE i]
    /\ lru_before2.delta.upcoming_offset = 7
    /\ lru_before2.delta.upcoming_power = 3
    /\ lru.delta.recent_powers[0] = 3

(***************************************************************************)
(* make_canonical_huffman_code with one used symbol.                        *)
(***************************************************************************)
\* The code is made and exactly one symbol has a nonzero frequency.
OneUsedSymbol ==
    /\ hpc \in {"lens", "done"} /\ freqs # <<>>
    /\ NumUsed(freqs, num_syms) = 1

TheUsedSymbol == CHOOSE u \in Syms : freqs[u] # 0

\* The symbols zero and one have the codewords 0 and 1 of length 1 and
\* every other symbol has length 0.
TwoCodewords(zero, one) ==
    /\ zero < one
    /\ lens[zero] = 1 /\ codewords[zero] = 0
    /\ lens[one] = 1 /\ codewords[one] = 1
    /\ \A s \in Syms \ {zero, one} : lens[s] = 0

\* C24 as stated: with one used symbol u, whatever it is, codeword 0 of
\* length 1 is given to a symbol with a smaller id than u, codeword 1 of
\* length 1 to u, and every other length is 0.
C24_SingleSymbolCode ==
    OneUsedSymbol => \E t \in Syms : TwoCodewords(t, TheUsedSymbol)

\* C24: with one used symbol u > 0, codeword 0 of length 1 is given to
\* symbol 0 and codeword 1 of length 1 to u; with u = 0, codeword 0 of
\* length 1 is given to symbol 0 and codeword 1 of length 1 to symbol 1;
\* every other length is 0.
C24_SingleSymbolCodeByCase ==
    OneUsedSymbol =>
        IF TheUsedSymbol # 0 THEN TwoCodewords(0, TheUsedSymbol)
        ELSE TwoCodewords(0, 1)

\* The last symbol of the largest alphabet is the used one, with a
\* frequency whose packed word wraps.
C24_Witness ==
    /\ OneUsedSymbol /\ hpc = "lens"
    /\ num_syms = MaxSyms /\ TheUsedSymbol = MaxSyms - 1
    /\ freqs[TheUsedSymbol] = LargeFreq
    /\ TwoCodewords(0, TheUsedSymbol)

(***************************************************************************)
(* The lengths of make_canonical_huffman_code against the frequencies.      *)
(***************************************************************************)
\* The code is made and at least two symbols have a nonzero frequency.
SeveralUsedSymbols ==
    /\ hpc \in {"lens", "done"} /\ freqs # <<>>
    /\ NumUsed(freqs, num_syms) >= 2

\* A symbol of a lower frequency has a codeword at least as long.
LengthsMonotone ==
    \A a, b \in Syms :
        (freqs[a] # 0 /\ freqs[b] # 0 /\ freqs[a] < freqs[b]) => lens[a] >= lens[b]

\* C25: for every array of 32-bit frequencies with at least two nonzero
\* entries, those of 2^22 and more included, freqs[a] < freqs[b] implies
\* lens[a] >= lens[b] for all used symbols a and b.
C25_LengthsMonotoneInFrequency == SeveralUsedSymbols => LengthsMonotone

\* With every frequency below 2^22 the lengths are monotone.
LengthsMonotoneBelowWrap ==
    (SeveralUsedSymbols /\ \A s \in Syms : freqs[s] < LargeFreq) => LengthsMonotone

(***************************************************************************)
(* The lengths of make_canonical_huffman_code against the classic Huffman  *)
(* algorithm.                                                               *)
(***************************************************************************)
\* The order nodes are taken in: by weight, a leaf before a non-leaf of
\* the same weight, leaves by symbol, non-leaves by the order they were
\* made in.
TakenBefore(x, y) ==
    \/ x.weight < y.weight
    \/ /\ x.weight = y.weight
       /\ \/ x.leaf /\ ~y.leaf
          \/ x.leaf = y.leaf /\ x.id < y.id

Lowest(nodes) == CHOOSE x \in nodes : \A y \in nodes \ {x} : TakenBefore(x, y)

\* The classic algorithm: the two lowest nodes are merged until one is
\* left; depth[s] is the depth of the leaf of s so far.
RECURSIVE ClassicHuffman(_, _, _)
ClassicHuffman(nodes, depth, made) ==
    IF Cardinality(nodes) <= 1 THEN depth
    ELSE LET m == Lowest(nodes)
             n == Lowest(nodes \ {m})
             merged == [weight |-> m.weight + n.weight, leaf |-> FALSE,
                        id |-> made, syms |-> m.syms \cup n.syms]
         IN  ClassicHuffman((nodes \ {m, n}) \cup {merged},
                            [s \in DOMAIN depth |->
                                IF s \in merged.syms THEN depth[s] + 1 ELSE depth[s]],
                            made + 1)

\* The leaf depths of the classic tree of the used symbols.
ClassicDepths ==
    ClassicHuffman({[weight |-> freqs[s], leaf |-> TRUE, id |-> s, syms |-> {s}] :
                       s \in {t \in Syms : freqs[t] # 0}},
                   [s \in Syms |-> 0], 0)

\* No leaf of the classic tree is as deep as max_codeword_len.
NoDepthReachesLimit == \A s \in Syms : ClassicDepths[s] < max_codeword_len

LengthsAreClassicDepths == \A s \in Syms : lens[s] = ClassicDepths[s]

\* C26: whenever no codeword depth reaches max_codeword_len, the lengths
\* are the leaf depths of the tree of the classic Huffman algorithm that
\* takes a leaf before a non-leaf of equal weight.
C26_LengthsAreClassicDepths ==
    (SeveralUsedSymbols /\ NoDepthReachesLimit) => LengthsAreClassicDepths

\* With the frequencies summing to less than 2^22 the lengths are the
\* classic depths.
LengthsAreClassicDepthsBelowWrap ==
    (/\ SeveralUsedSymbols /\ NoDepthReachesLimit
     /\ SumSeq([k \in 1..num_syms |-> freqs[k - 1]]) < LargeFreq)
        => LengthsAreClassicDepths

(***************************************************************************)
(* The cached full path under the calls that change a path.                 *)
(***************************************************************************)
\* dentry_set_name_utf16le(dentry, name, name_nbytes) on an unlinked dentry,
\* the only kind it is to be used on; the duplication of the name succeeds.
SetName(dentry, name) ==
    /\ dentry # ROOT /\ dentry_is_root(dentry)
    /\ file_name[dentry] # name
    /\ file_name' = [file_name EXCEPT ![dentry] = name]
    /\ tree_last' = [op |-> "set_name", ret |-> NULL]
    /\ UNCHANGED <<d_parent, i_children, i_children_ci, ci_next, ci_prev,
                   ci_linked, full_path>>
    /\ UNCHANGED <<huffVars, x86Vars, slotVars, metaVars, winVars, lruVars, walkVars, scanVars>>

\* The names the dentries are made with and renamed to: two that differ
\* in case only.
CacheNames == {<<"a", "a">>, <<"a", "A">>}

\* new_dentry for each dentry, the root with an empty name.
InitCache ==
    /\ HuffIdle /\ X86Idle /\ SlotIdle /\ MetaIdle /\ WinIdle /\ LruIdle /\ WalkIdle /\ ScanIdle
    /\ \E names \in [1..NumDentries -> CacheNames] :
           file_name = [d \in Dentries |-> IF d = ROOT THEN <<>> ELSE names[d]]
    /\ d_parent = [d \in Dentries |-> d]
    /\ i_children = [d \in Dentries |-> {}]
    /\ i_children_ci = [d \in Dentries |-> {}]
    /\ ci_next = [d \in Dentries |-> d]
    /\ ci_prev = [d \in Dentries |-> d]
    /\ ci_linked = [d \in Dentries |-> FALSE]
    /\ full_path = [d \in Dentries |-> <<>>]
    /\ tree_last = [op |-> "none", ret |-> NULL]

NextCache ==
    \/ \E parent, child \in Dentries : AddChild(parent, child)
    \/ \E dentry \in Dentries : Unlink(dentry)
    \/ \E dentry \in Dentries : FullPath(dentry)
    \/ \E dentry \in Dentries, name \in CacheNames : SetName(dentry, name)

SpecCache == InitCache /\ [][NextCache]_vars

\* C27: after any sequence of unlink_dentry, dentry_set_name and
\* dentry_add_child on a dentry or its ancestors, dentry_full_path(d) is
\* the separator-joined long names along the current parent chain of d,
\* also when the path was cached before.
C27_FullPathIsNeverStale ==
    \A d \in Dentries : dentry_full_path(d) = PathTo(d)

\* A path that is not cached is calculated from the current parent chain,
\* and a cached one is the path of the time it was calculated: the cache
\* is stale only after a later call changed the path.
FullPathIsFreshWhenCalculated ==
    /\ \A d \in Dentries : full_path[d] = <<>> => dentry_full_path(d) = PathTo(d)
    /\ \A d \in Dentries :
           tree_last.op = "full_path" => dentry_full_path(d) = PathTo(d)

(***************************************************************************)
(* dentry.c: for_dentry_in_tree                                             *)
(***************************************************************************)
MaxWalk == 3        \* dentries below the root of a tree that is walked

\* A state of the walk: the result so far and the dentries the visitor
\* was called on.
RECURSIVE do_for_dentry_in_tree(_, _, _, _)
RECURSIVE for_each_child(_, _, _, _)

\* A loop over the children that goes on after a nonzero result.
for_each_child_to_the_end(tree, children, visitor, calls) ==
    IF children = <<>> THEN [ret |-> 0, calls |-> calls]
    ELSE LET below == do_for_dentry_in_tree(tree, Head(children), visitor, calls)
             rest  == for_each_child(tree, Tail(children), visitor, below.calls)
         IN  IF below.ret # 0 THEN [ret |-> below.ret, calls |-> rest.calls]
             ELSE rest

\* for_dentry_child(child, dentry) { ret = do_for_dentry_in_tree(child,
\* visitor, arg); if (ret) return ret; } return 0;
for_each_child(tree, children, visitor, calls) ==
    IF children = <<>> THEN [ret |-> 0, calls |-> calls]
    ELSE LET below == do_for_dentry_in_tree(tree, Head(children), visitor, calls)
         IN  IF below.ret # 0 THEN below
             ELSE for_each_child(tree, Tail(children), visitor, below.calls)

do_for_dentry_in_tree(tree, dentry, visitor, calls) ==
    IF visitor[dentry] # 0
    THEN [ret |-> visitor[dentry], calls |-> Append(calls, dentry)]
    ELSE for_each_child(tree, for_dentry_child(tree, dentry), visitor,
                        Append(calls, dentry))

for_dentry_in_tree(tree, root, visitor) ==
    IF root = NULL THEN [ret |-> 0, calls |-> <<>>]
    ELSE do_for_dentry_in_tree(tree, root, visitor, <<>>)

\* The names of the dentries that are walked.
WalkNames == {<<"a">>, <<"a", ".">>, <<"b">>}

\* What a visitor returns.
VisitorResults == {0, 5, 6}

\* A tree of up to MaxWalk dentries below the root, no two children of a
\* dentry with the same name, and a visitor; or no tree at all.
InitWalk ==
    /\ HuffIdle /\ X86Idle /\ SlotIdle /\ TreeIdle /\ MetaIdle /\ WinIdle /\ LruIdle /\ ScanIdle
    /\ walk_pc = "tree"
    /\ \E n \in 0..MaxWalk :
           \E par \in [1..n -> 0..MaxWalk], nm \in [1..n -> WalkNames] :
               /\ \A d \in 1..n : par[d] < d
               /\ \A d, e \in 1..n : (d # e /\ par[d] = par[e]) => nm[d] # nm[e]
               /\ walk_tree = [d \in 0..n |->
                                  IF d = 0 THEN [d_parent |-> 0, file_name |-> <<>>]
                                  ELSE [d_parent |-> par[d], file_name |-> nm[d]]]
               /\ walk_visitor \in [0..n -> VisitorResults]
               /\ walk_root \in IF n = 0 THEN {0, NULL} ELSE {0}
    /\ walk_calls = <<>> /\ walk_ret = "none"

ForDentryInTree ==
    /\ walk_pc = "tree"
    /\ \E walked \in {for_dentry_in_tree(walk_tree, walk_root, walk_visitor)} :
           /\ walk_ret' = walked.ret
           /\ walk_calls' = walked.calls
    /\ walk_pc' = "done"
    /\ UNCHANGED <<walk_root, walk_tree, walk_visitor>>
    /\ UNCHANGED <<huffVars, x86Vars, slotVars, treeVars, metaVars, winVars, lruVars, scanVars>>

NextWalk == ForDentryInTree

SpecWalk == InitWalk /\ [][NextWalk]_vars

(***************************************************************************)
(* Properties of for_dentry_in_tree.                                        *)
(***************************************************************************)
WalkDentries == IF walk_root = NULL THEN {} ELSE DOMAIN walk_tree

\* The names from below the root down to d.
RECURSIVE ComponentsOf(_)
ComponentsOf(d) ==
    IF d = 0 THEN <<>>
    ELSE Append(ComponentsOf(walk_tree[d].d_parent), walk_tree[d].file_name)

\* d comes before e: it is above e, or where their chains part the name on
\* the chain of d is the lower one in case-sensitive order.
RECURSIVE ComponentsBefore(_, _)
ComponentsBefore(c1, c2) ==
    IF c1 = <<>> THEN c2 # <<>>
    ELSE IF c2 = <<>> THEN FALSE
    ELSE IF Head(c1) # Head(c2) THEN NameLess(Head(c1), Head(c2))
    ELSE ComponentsBefore(Tail(c1), Tail(c2))

\* The code units of the full path of d and their order, the separator by
\* its value.
RECURSIVE PathUnitsOf(_)
PathUnitsOf(d) ==
    IF d = 0 THEN <<>>
    ELSE PathUnitsOf(walk_tree[d].d_parent)
             \o <<WIM_PATH_SEPARATOR>> \o walk_tree[d].file_name

PathUnit(c) == IF c = WIM_PATH_SEPARATOR THEN 47 ELSE CodeUnit(c)

RECURSIVE PathLess(_, _)
PathLess(p1, p2) ==
    IF p1 = <<>> THEN p2 # <<>>
    ELSE IF p2 = <<>> THEN FALSE
    ELSE IF Head(p1) # Head(p2) THEN PathUnit(Head(p1)) < PathUnit(Head(p2))
    ELSE PathLess(Tail(p1), Tail(p2))

\* The visitor is called at most once per dentry, on a parent before its
\* descendants and on siblings in ascending case-sensitive name order, on
\* no dentry after a call that returned nonzero, and on every dentry if no
\* call did; the result is the nonzero value, 0 if there was none; for no
\* root there is no call and the result is 0.
VisitsInPreOrder ==
    /\ \A i, j \in DOMAIN walk_calls : i # j => walk_calls[i] # walk_calls[j]
    /\ \A i \in DOMAIN walk_calls : walk_calls[i] \in WalkDentries
    /\ \A i, j \in DOMAIN walk_calls :
           i < j => ComponentsBefore(ComponentsOf(walk_calls[i]),
                                     ComponentsOf(walk_calls[j]))
    /\ \A i \in DOMAIN walk_calls : \A d \in WalkDentries :
           ComponentsBefore(ComponentsOf(d), ComponentsOf(walk_calls[i]))
               => \E j \in 1..(i - 1) : walk_calls[j] = d
    /\ \A i \in DOMAIN walk_calls :
           walk_visitor[walk_calls[i]] # 0 =>
               /\ i = Len(walk_calls)
               /\ walk_ret = walk_visitor[walk_calls[i]]
    /\ (\A i \in DOMAIN walk_calls : walk_visitor[walk_calls[i]] = 0) =>
           /\ walk_ret = 0
           /\ {walk_calls[i] : i \in DOMAIN walk_calls} = WalkDentries
    /\ walk_root = NULL => (walk_calls = <<>> /\ walk_ret = 0)

\* The calls are in the order of the code units of the full paths.
VisitsInFullPathOrder ==
    \A i, j \in DOMAIN walk_calls :
        i < j => PathLess(PathUnitsOf(walk_calls[i]), PathUnitsOf(walk_calls[j]))

MaxDepth == 6       \* calls of read_dentry_tree_recursive within each other

\* dir->d_parent and the dentries above it for the dir of the next call,
\* the child of the dir of the innermost frame.
ParentsOf(stack) == [i \in 1..Len(stack) |-> stack[i].dir]

\* The buffers of InitParse.
InitScan ==
    /\ HuffIdle /\ X86Idle /\ SlotIdle /\ TreeIdle /\ MetaIdle /\ WinIdle /\ LruIdle /\ WalkIdle
    /\ scan_pc = "root"
    /\ \E sub \in SlotOffsets, items \in [1..MaxSlots -> SlotItems] :
           scan_buf = [o \in {SlotAt(s) : s \in 0..MaxSlots} |->
                          IF o = SlotAt(0) THEN SlotDentry(<<>>, {"DIRECTORY"}, sub)
                          ELSE items[(o - SecurityDataLength) \div SlotSize]]
    /\ scan_len = SlotAt(MaxSlots + 1)
    /\ scan_stack = <<>> /\ scan_linked = {} /\ scan_child = <<>>
    /\ scan_ret = "none"

\* The root read_dentry has returned in r, its names removed, and the child
\* of the dir of the innermost call.
ScanRoot(r) ==
    ReadDentry(<<>>, [r.dentry EXCEPT !.file_name = <<>>, !.short_name = <<>>])

ScanChild(r) ==
    ReadDentry(Append(Head(scan_stack).dir.path, r.dentry.file_name), r.dentry)

ScanFrame == UNCHANGED <<huffVars, x86Vars, slotVars, treeVars, metaVars, winVars, lruVars, walkVars>>

\* read_dentry_tree up to its call of read_dentry_tree_recursive.
ScanReadRoot ==
    /\ scan_pc = "root"
    /\ \E r \in {read_dentry(scan_buf, scan_len, SecurityDataLength)} :
           IF r.ret # WIMLIB_ERR_SUCCESS
           THEN /\ scan_pc' = "done" /\ scan_ret' = r.ret
                /\ UNCHANGED <<scan_linked, scan_child>>
           ELSE IF r.dentry = NO_DENTRY
           THEN /\ scan_pc' = "done" /\ scan_ret' = WIMLIB_ERR_SUCCESS
                /\ UNCHANGED <<scan_linked, scan_child>>
           ELSE IF ~inode_is_directory(ScanRoot(r).d_inode)
           THEN /\ scan_pc' = "done"
                /\ scan_ret' = WIMLIB_ERR_INVALID_METADATA_RESOURCE
                /\ UNCHANGED <<scan_linked, scan_child>>
           ELSE IF ScanRoot(r).subdir_offset = 0
           THEN /\ scan_pc' = "done" /\ scan_ret' = WIMLIB_ERR_SUCCESS
                /\ scan_linked' = {ScanRoot(r)}
                /\ UNCHANGED scan_child
           ELSE /\ scan_pc' = "enter" /\ scan_child' = ScanRoot(r)
                /\ scan_linked' = {ScanRoot(r)}
                /\ UNCHANGED scan_ret
    /\ UNCHANGED <<scan_buf, scan_len, scan_stack>>
    /\ ScanFrame

\* The entry of read_dentry_tree_recursive for scan_child: the test for a
\* cyclic directory structure.
ScanEnter ==
    /\ scan_pc = "enter"
    /\ Len(scan_stack) < MaxDepth
    /\ IF CyclicDirectoryStructure(ParentsOf(scan_stack), scan_child.subdir_offset)
       THEN /\ scan_pc' = "done"
            /\ scan_ret' = WIMLIB_ERR_INVALID_METADATA_RESOURCE
            /\ UNCHANGED <<scan_stack, scan_child>>
       ELSE /\ scan_pc' = "loop"
            /\ scan_stack' = <<[dir |-> scan_child,
                                cur_offset |-> scan_child.subdir_offset]>>
                                 \o scan_stack
            /\ scan_child' = <<>>
            /\ UNCHANGED scan_ret
    /\ UNCHANGED <<scan_buf, scan_len, scan_linked>>
    /\ ScanFrame

\* One turn of the for (;;) loop of the innermost call, up to the call for
\* the child or the return.
ScanReadChild ==
    /\ scan_pc = "loop"
    /\ \E r \in {read_dentry(scan_buf, scan_len, Head(scan_stack).cur_offset)} :
           IF r.ret # WIMLIB_ERR_SUCCESS
           THEN /\ scan_pc' = "done" /\ scan_ret' = r.ret
                /\ UNCHANGED <<scan_stack, scan_linked, scan_child>>
           ELSE IF r.dentry = NO_DENTRY
           THEN /\ scan_stack' = Tail(scan_stack)
                /\ IF Tail(scan_stack) = <<>>
                   THEN scan_pc' = "done" /\ scan_ret' = WIMLIB_ERR_SUCCESS
                   ELSE scan_pc' = "loop" /\ UNCHANGED scan_ret
                /\ UNCHANGED <<scan_linked, scan_child>>
           ELSE /\ scan_stack' = [scan_stack EXCEPT ![1].cur_offset = r.offset]
                /\ UNCHANGED scan_ret
                /\ IF \/ r.dentry.file_name = <<>>
                      \/ dentry_is_dot_or_dotdot(r.dentry)
                      \/ \E e \in scan_linked : e.path = ScanChild(r).path
                   THEN /\ scan_pc' = "loop"
                        /\ UNCHANGED <<scan_linked, scan_child>>
                   ELSE /\ scan_linked' = scan_linked \cup {ScanChild(r)}
                        /\ IF /\ ScanChild(r).subdir_offset # 0
                              /\ inode_is_directory(ScanChild(r).d_inode)
                           THEN scan_pc' = "enter" /\ scan_child' = ScanChild(r)
                           ELSE scan_pc' = "loop" /\ UNCHANGED scan_child
    /\ UNCHANGED <<scan_buf, scan_len>>
    /\ ScanFrame

NextScan == ScanReadRoot \/ ScanEnter \/ ScanReadChild

SpecScan == InitScan /\ [][NextScan]_vars

\* The call goes on as long as it has not returned.
FairSpecScan == SpecScan /\ WF_vars(NextScan)

(***************************************************************************)
(* Properties of the scan.                                                  *)
(***************************************************************************)
\* A turn of the loop that has read a record and stays in the call moves
\* the read offset of the call on by 16 bytes or more.
RecordAdvances ==
    (/\ scan_pc = "loop" /\ scan_pc' # "done"
     /\ Len(scan_stack') = Len(scan_stack))
        => Head(scan_stack').cur_offset >= Head(scan_stack).cur_offset + 16

\* The read offset of a call that reads stays within the buffer.
ReadsWithinBuffer ==
    \A i \in DOMAIN scan_stack :
        scan_stack[i].cur_offset >= 0 /\ scan_stack[i].cur_offset <= scan_len

\* No two calls within each other for directories other than the root read
\* from the same subdir_offset.
DistinctOnChain ==
    \A i, j \in 1..(Len(scan_stack) - 1) :
        i # j => scan_stack[i].dir.subdir_offset # scan_stack[j].dir.subdir_offset

\* The depth of the recursion stays below the bound of the model.
DepthIsBounded == Len(scan_stack) <= Cardinality(SlotOffsets) + 1

\* C30: read_dentry_tree returns for every buffer: a turn of the loop that
\* accepts a record moves the read offset on by at least 16 bytes, within
\* the buffer; no two directories other than the root on one chain of
\* calls have the same subdir_offset, so that the depth of the recursion is
\* bounded.
C30_ReadDentryTreeTerminates ==
    /\ <>(scan_pc = "done")
    /\ [][RecordAdvances]_scanVars
    /\ [](ReadsWithinBuffer /\ DistinctOnChain /\ DepthIsBounded)

\* The call has returned the error of a cyclic directory structure found
\* three calls deep: the list of the children of a directory is the list
\* its parent is in.
C30_Witness ==
    /\ scan_pc = "done" /\ scan_ret = WIMLIB_ERR_INVALID_METADATA_RESOURCE
    /\ Len(scan_stack) = 3
    /\ scan_child # <<>>
    /\ \E i \in 1..2 : scan_stack[i].dir.subdir_offset = scan_child.subdir_offset

\* The steps arrive at what read_dentry_tree_recursive arrives at in one.
ScanAgreesWithReadDentryTree ==
    scan_pc = "done" =>
        \E read \in {read_dentry_tree(scan_buf, scan_len, SecurityDataLength, {})} :
            /\ scan_ret = read.ret
            /\ read.ret = WIMLIB_ERR_SUCCESS => scan_linked = read.root_ret

====
